---------------------------- MODULE Spec2Model ----------------------------
(***************************************************************************)
(* Verification model of the options day-trading assistant: the market     *)
(* condition classifier and trade builder (strategy_selector.py), the      *)
(* strategy catalog (strategy_configs.py), the risk metrics engine         *)
(* (risk_metrics.py), the ranker (trade_scorer.py) and the orchestration   *)
(* loop TradingSystem.run (main.py).                                       *)
(*                                                                         *)
(* Numbers.  The program computes with floats; the model computes the same *)
(* quantities exactly, with integers:                                      *)
(*   - strikes, underlying prices and spread widths are whole dollars;     *)
(*   - bid and ask are whole cents; every money amount derived from them   *)
(*     (leg price, net cost, max loss, max gain, width) is counted in      *)
(*     half-cents, so that the bid/ask midpoint is exact: $1 = 200;        *)
(*   - delta and delta targets are hundredths (0.60 is 60);                *)
(*   - 'volatility' is hundredths, so volatility * 100 (the IV in percent) *)
(*     is that integer; IV percentiles and thresholds are whole numbers;   *)
(*   - ATR is tenths (2.5 is 25); a volume ratio is never divided out: its *)
(*     comparisons are cross-multiplied;                                   *)
(*   - probabilities are whole percents, scores are tenths of a point.     *)
(***************************************************************************)
EXTENDS Integers, Sequences, FiniteSets, TLC

VARIABLES
    settings,       \* the Settings instance (config/settings.py)
    pc,             \* position of TradingSystem.run
    candidates,     \* result of scanner.scan_market
    idx,            \* index of the candidate the for-loop is at
    options_data,   \* result of options_filter.filter_options
    condition,      \* regime detected by the last select_strategy
    trade,          \* result of the last select_strategy
    prob_metrics,   \* result of the last _calculate_probabilities
    risk_metrics,   \* result of the last calculate_trade_metrics
    steps,          \* calls made for the current candidate, in order
    outcome,        \* per finished candidate: "scored" or "skipped"
    all_trades,     \* run's all_trades list
    top_trades,     \* result of rank_trades
    op,             \* direct call of one function: which one
    args,           \* ... its arguments
    result          \* ... its return value

vars == <<settings, pc, candidates, idx, options_data, condition, trade,
          prob_metrics, risk_metrics, steps, outcome, all_trades,
          top_trades, op, args, result>>

runVars == <<pc, candidates, idx, options_data, condition, trade,
             prob_metrics, risk_metrics, steps, outcome, all_trades,
             top_trades>>

callVars == <<op, args, result>>

\* What a direct call of one function leaves alone.
idleVars == <<settings, candidates, idx, options_data, condition, trade,
              prob_metrics, risk_metrics, steps, outcome, all_trades,
              top_trades>>

(***************************************************************************)
(* Python values                                                           *)
(***************************************************************************)
\* Python's None.
None == [none |-> TRUE]

\* An empty dict {} (falsy, every .get returns its default).
EmptyDict == [empty |-> TRUE]

\* An exception that leaves the function.
Raised(kind) == [raised |-> kind]

IsRaised(x) == "raised" \in DOMAIN x

Abs(x) == IF x < 0 THEN 0 - x ELSE x

Max(a, b) == IF a >= b THEN a ELSE b

Min(a, b) == IF a <= b THEN a ELSE b

\* int(n / d) for d > 0: Python's int() truncates toward zero.
TruncDiv(n, d) == IF n >= 0 THEN n \div d ELSE 0 - ((0 - n) \div d)

\* min() returning the last element whose key is minimal.
LastMin(keys) ==
    CHOOSE k \in 1..Len(keys) :
        /\ \A j \in 1..Len(keys) : keys[k] <= keys[j]
        /\ \A j \in (k + 1)..Len(keys) : keys[j] > keys[k]

\* Python min(seq, key=...) returns the first element whose key is minimal:
\* the index of that element, given the keys in order.
FirstMin(keys) ==
    CHOOSE k \in 1..Len(keys) :
        /\ \A j \in 1..Len(keys) : keys[k] <= keys[j]
        /\ \A j \in 1..(k - 1) : keys[j] > keys[k]

\* Money: dollars to half-cents.
Dollars(d) == d * 200

(***************************************************************************)
(* strategy_configs.py                                                     *)
(***************************************************************************)
LONG_CALL == "Long Call"
LONG_PUT == "Long Put"
CALL_DEBIT_SPREAD == "Call Debit Spread"
PUT_DEBIT_SPREAD == "Put Debit Spread"
CALL_CREDIT_SPREAD == "Call Credit Spread"
PUT_CREDIT_SPREAD == "Put Credit Spread"
IRON_CONDOR == "Iron Condor"
SKIP == "Skip - Too Risky"

StrategyType == {LONG_CALL, LONG_PUT, CALL_DEBIT_SPREAD, PUT_DEBIT_SPREAD,
                 CALL_CREDIT_SPREAD, PUT_CREDIT_SPREAD, IRON_CONDOR, SKIP}

STRONG_BULLISH == "strong_bullish"
STRONG_BEARISH == "strong_bearish"
BULLISH_BREAKOUT == "bullish_breakout"
BEARISH_BREAKOUT == "bearish_breakout"
HIGH_IV_RANGE == "high_iv_range"
CHOPPY == "choppy"
NEWS_SPIKE == "news_spike"

MarketCondition == {STRONG_BULLISH, STRONG_BEARISH, BULLISH_BREAKOUT,
                    BEARISH_BREAKOUT, HIGH_IV_RANGE, CHOPPY, NEWS_SPIKE}

StrategyConfig(st, dt, sw, md) ==
    [strategy_type |-> st, delta_target |-> dt, spread_width |-> sw,
     max_dte |-> md]

STRATEGY_CONFIGS ==
    [c \in MarketCondition |->
        CASE c = STRONG_BULLISH   -> StrategyConfig(LONG_CALL, 60, 0, 7)
          [] c = STRONG_BEARISH   -> StrategyConfig(LONG_PUT, 60, 0, 7)
          [] c = BULLISH_BREAKOUT -> StrategyConfig(CALL_DEBIT_SPREAD, 50, 5, 7)
          [] c = BEARISH_BREAKOUT -> StrategyConfig(PUT_DEBIT_SPREAD, 50, 5, 7)
          [] c = HIGH_IV_RANGE    -> StrategyConfig(CALL_CREDIT_SPREAD, 30, 5, 7)
          [] c = CHOPPY           -> StrategyConfig(IRON_CONDOR, 20, 5, 2)
          [] c = NEWS_SPIKE       -> StrategyConfig(SKIP, 0, 0, 0)]

\* The catalog with news_spike mapped to a tradable shape (a wrong table entry).
GetStrategyConfigNoSkip(c) ==
    IF c = NEWS_SPIKE THEN StrategyConfig(LONG_CALL, 60, 0, 7)
    ELSE STRATEGY_CONFIGS[c]

get_strategy_config(c) == STRATEGY_CONFIGS[c]

\* 'Spread' in strategy, 'Iron Condor' in strategy, 'Call' in strategy:
\* substring tests on the StrategyType values.
HasSpread(strategy) ==
    strategy \in {CALL_DEBIT_SPREAD, PUT_DEBIT_SPREAD, CALL_CREDIT_SPREAD,
                  PUT_CREDIT_SPREAD}

HasIronCondor(strategy) == strategy = IRON_CONDOR

HasCall(strategy) ==
    strategy \in {LONG_CALL, CALL_DEBIT_SPREAD, CALL_CREDIT_SPREAD}

(***************************************************************************)
(* config/settings.py                                                      *)
(***************************************************************************)
\* Scoring weights are hundredths (0.30 is 30).
DefaultWeights ==
    [weight_probability |-> 30, weight_risk_reward |-> 25,
     weight_iv_edge |-> 20, weight_liquidity |-> 15, weight_trend |-> 10]

Settings(low, high, extreme, minScore, maxOut) ==
    [low_iv_threshold |-> low, high_iv_threshold |-> high,
     extreme_iv_threshold |-> extreme, min_trade_score |-> minScore,
     max_trades_output |-> maxOut] @@ DefaultWeights

\* Defaults with extreme_iv_threshold at 80, below the highest estimate.
SettingsExtremeAt80 == Settings(30, 60, 80, 700, 5)

\* The defaults of the Field declarations (min_trade_score 70.0 is 700 tenths).
DefaultSettings == Settings(30, 60, 100, 700, 5)

(***************************************************************************)
(* strategy_selector.py: the classifier                                    *)
(***************************************************************************)
AbsDeltaDist(c, target) == Abs(Abs(c.delta) - target)

\* min(contracts, key=lambda x: abs(abs(x['greeks']['delta']) - target))
ClosestDelta(contracts, target) ==
    contracts[FirstMin([i \in 1..Len(contracts) |->
                           AbsDeltaDist(contracts[i], target)])]

\* min(contracts, key=lambda x: abs(x['strikePrice'] - target))
ClosestStrike(contracts, target) ==
    contracts[FirstMin([i \in 1..Len(contracts) |->
                           Abs(contracts[i].strikePrice - target)])]

\* _estimate_iv_percentile reading the last call closest to delta 0.5 and
\* putting an IV of exactly 60% in the 70 bucket.
EstimateIvLastAtm(od) ==
    IF od.calls = <<>> THEN 50
    ELSE LET atm_call ==
                 od.calls[LastMin([i \in 1..Len(od.calls) |->
                                      AbsDeltaDist(od.calls[i], 50)])]
             iv == atm_call.volatility
         IN  IF iv < 20 THEN 20
             ELSE IF iv < 30 THEN 35
             ELSE IF iv < 40 THEN 50
             ELSE IF iv <= 60 THEN 70
             ELSE 85

_estimate_iv_percentile(od) ==
    IF od.calls = <<>> THEN 50
    ELSE LET atm_call == ClosestDelta(od.calls, 50)
             iv == atm_call.volatility
         IN  IF iv < 20 THEN 20
             ELSE IF iv < 30 THEN 35
             ELSE IF iv < 40 THEN 50
             ELSE IF iv < 60 THEN 70
             ELSE 85

\* volume_ratio > t/10, with volume_ratio = volume / avg_volume if
\* avg_volume > 0 else 1.
VolumeRatioGT(cand, t) ==
    IF cand.avg_volume > 0 THEN cand.volume * 10 > t * cand.avg_volume
    ELSE 10 > t

VolumeRatioLT(cand, t) ==
    IF cand.avg_volume > 0 THEN cand.volume * 10 < t * cand.avg_volume
    ELSE 10 < t

\* The cascade with the breakout rule tested before the strong-momentum rule.
DetectBreakoutFirst(cand, od, st) ==
    LET vwap_bias == cand.vwap_bias
        iv_percentile == _estimate_iv_percentile(od)
    IN  IF iv_percentile > st.extreme_iv_threshold THEN NEWS_SPIKE
        ELSE IF VolumeRatioGT(cand, 15) /\ iv_percentile < st.low_iv_threshold
                /\ vwap_bias = "bullish" THEN BULLISH_BREAKOUT
        ELSE IF VolumeRatioGT(cand, 15) /\ iv_percentile < st.low_iv_threshold
                /\ vwap_bias = "bearish" THEN BEARISH_BREAKOUT
        ELSE IF VolumeRatioGT(cand, 20) /\ cand.atr > 25
                /\ vwap_bias = "bullish" THEN STRONG_BULLISH
        ELSE IF VolumeRatioGT(cand, 20) /\ cand.atr > 25
                /\ vwap_bias = "bearish" THEN STRONG_BEARISH
        ELSE IF iv_percentile > st.high_iv_threshold /\ vwap_bias = "neutral"
             THEN HIGH_IV_RANGE
        ELSE IF vwap_bias = "neutral" /\ VolumeRatioLT(cand, 15) THEN CHOPPY
        ELSE IF vwap_bias = "bullish" THEN BULLISH_BREAKOUT
        ELSE IF vwap_bias = "bearish" THEN BEARISH_BREAKOUT
        ELSE CHOPPY

\* The cascade with the news-spike rule tested after the strong-momentum
\* rule instead of first.
DetectNewsSpikeLate(cand, od, st) ==
    LET vwap_bias == cand.vwap_bias
        iv_percentile == _estimate_iv_percentile(od)
    IN  IF VolumeRatioGT(cand, 20) /\ cand.atr > 25
           /\ vwap_bias = "bullish" THEN STRONG_BULLISH
        ELSE IF VolumeRatioGT(cand, 20) /\ cand.atr > 25
                /\ vwap_bias = "bearish" THEN STRONG_BEARISH
        ELSE IF iv_percentile > st.extreme_iv_threshold THEN NEWS_SPIKE
        ELSE IF VolumeRatioGT(cand, 15) /\ iv_percentile < st.low_iv_threshold
                /\ vwap_bias = "bullish" THEN BULLISH_BREAKOUT
        ELSE IF VolumeRatioGT(cand, 15) /\ iv_percentile < st.low_iv_threshold
                /\ vwap_bias = "bearish" THEN BEARISH_BREAKOUT
        ELSE IF iv_percentile > st.high_iv_threshold /\ vwap_bias = "neutral"
             THEN HIGH_IV_RANGE
        ELSE IF vwap_bias = "neutral" /\ VolumeRatioLT(cand, 15) THEN CHOPPY
        ELSE IF vwap_bias = "bullish" THEN BULLISH_BREAKOUT
        ELSE IF vwap_bias = "bearish" THEN BEARISH_BREAKOUT
        ELSE CHOPPY

_detect_market_condition(cand, od, st) ==
    LET vwap_bias == cand.vwap_bias
        atr == cand.atr
        iv_percentile == _estimate_iv_percentile(od)
    IN  IF iv_percentile > st.extreme_iv_threshold THEN NEWS_SPIKE
        ELSE IF VolumeRatioGT(cand, 20) /\ atr > 25
                /\ vwap_bias = "bullish" THEN STRONG_BULLISH
        ELSE IF VolumeRatioGT(cand, 20) /\ atr > 25
                /\ vwap_bias = "bearish" THEN STRONG_BEARISH
        ELSE IF VolumeRatioGT(cand, 15) /\ iv_percentile < st.low_iv_threshold
                /\ vwap_bias = "bullish" THEN BULLISH_BREAKOUT
        ELSE IF VolumeRatioGT(cand, 15) /\ iv_percentile < st.low_iv_threshold
                /\ vwap_bias = "bearish" THEN BEARISH_BREAKOUT
        ELSE IF iv_percentile > st.high_iv_threshold /\ vwap_bias = "neutral"
             THEN HIGH_IV_RANGE
        ELSE IF vwap_bias = "neutral" /\ VolumeRatioLT(cand, 15) THEN CHOPPY
        ELSE IF vwap_bias = "bullish" THEN BULLISH_BREAKOUT
        ELSE IF vwap_bias = "bearish" THEN BEARISH_BREAKOUT
        ELSE CHOPPY

(***************************************************************************)
(* strategy_selector.py: the trade builder                                 *)
(*                                                                         *)
(* A contract is a record [strikePrice, dte, delta, bid, ask, volatility,  *)
(* openInterest, totalVolume, option_type]; greeks.delta is the field      *)
(* delta.  A leg is [action, option_type, strike, quantity, price]; the    *)
(* greeks copied into a leg, 'expiration' and 'explanation' are read by no *)
(* computation and are left out.                                           *)
(***************************************************************************)
\* (bid + ask) / 2 in cents per share, that is bid + ask half-cents.
MidPrice(c) == c.bid + c.ask

Leg(action, option_type, c) ==
    [action |-> action, option_type |-> option_type,
     strike |-> c.strikePrice, quantity |-> 1, price |-> MidPrice(c)]

BiasOf(cond) ==
    IF cond \in {STRONG_BULLISH, BULLISH_BREAKOUT} THEN "bullish"
    ELSE IF cond \in {STRONG_BEARISH, BEARISH_BREAKOUT} THEN "bearish"
    ELSE "neutral"

Trade(symbol, strategy, cond, bias, underlying_price, dte, legs) ==
    [symbol |-> symbol, strategy |-> strategy, condition |-> cond,
     bias |-> bias, underlying_price |-> underlying_price, dte |-> dte,
     legs |-> legs]

\* [c for c in contracts if c.get('dte', 999) <= max_dte]
FilterByDte(contracts, max_dte) ==
    SelectSeq(contracts, LAMBDA c : c.dte <= max_dte)

TargetShortStrike(strategy_type, long_strike, spread_width) ==
    IF strategy_type \in {CALL_DEBIT_SPREAD, PUT_CREDIT_SPREAD}
    THEN long_strike + spread_width
    ELSE long_strike - spread_width

_build_spread(symbol, underlying_price, long_contract, contracts, config, cond, option_type) ==
    LET long_strike == long_contract.strikePrice
        target_short_strike ==
            TargetShortStrike(config.strategy_type, long_strike,
                              config.spread_width)
        short_contract == ClosestStrike(contracts, target_short_strike)
        is_debit ==
            config.strategy_type \in {CALL_DEBIT_SPREAD, PUT_DEBIT_SPREAD}
    IN  Trade(symbol, config.strategy_type, cond, BiasOf(cond),
              underlying_price, long_contract.dte,
              << Leg(IF is_debit THEN "BUY" ELSE "SELL", option_type,
                     long_contract),
                 Leg(IF is_debit THEN "SELL" ELSE "BUY", option_type,
                     short_contract) >>)

\* _build_iron_condor selecting the short legs by the template's delta target.
BuildIronCondorTemplateDelta(cand, od, config) ==
    LET calls == FilterByDte(od.calls, config.max_dte)
        puts == FilterByDte(od.puts, config.max_dte)
    IN  IF calls = <<>> \/ puts = <<>> THEN None
        ELSE
        LET short_call == ClosestDelta(calls, config.delta_target)
            short_put == ClosestDelta(puts, config.delta_target)
            long_call ==
                ClosestStrike(calls,
                              short_call.strikePrice + config.spread_width)
            long_put ==
                ClosestStrike(puts,
                              short_put.strikePrice - config.spread_width)
        IN  Trade(cand.symbol, IRON_CONDOR, CHOPPY, "neutral",
                  od.underlying_price, short_call.dte,
                  << Leg("SELL", "CALL", short_call),
                     Leg("BUY", "CALL", long_call),
                     Leg("SELL", "PUT", short_put),
                     Leg("BUY", "PUT", long_put) >>)

_build_iron_condor(cand, od, config) ==
    LET calls == FilterByDte(od.calls, config.max_dte)
        puts == FilterByDte(od.puts, config.max_dte)
    IN  IF calls = <<>> \/ puts = <<>> THEN None
        ELSE
        LET short_call == ClosestDelta(calls, 20)
            short_put == ClosestDelta(puts, 20)
            long_call ==
                ClosestStrike(calls,
                              short_call.strikePrice + config.spread_width)
            long_put ==
                ClosestStrike(puts,
                              short_put.strikePrice - config.spread_width)
        IN  Trade(cand.symbol, IRON_CONDOR, CHOPPY, "neutral",
                  od.underlying_price, short_call.dte,
                  << Leg("SELL", "CALL", short_call),
                     Leg("BUY", "CALL", long_call),
                     Leg("SELL", "PUT", short_put),
                     Leg("BUY", "PUT", long_put) >>)

\* The contracts of the shape's class, and the class.
ContractsOf(od, strategy_type) ==
    IF strategy_type \in {LONG_CALL, CALL_DEBIT_SPREAD, CALL_CREDIT_SPREAD}
    THEN od.calls ELSE od.puts

OptionTypeOf(strategy_type) ==
    IF strategy_type \in {LONG_CALL, CALL_DEBIT_SPREAD, CALL_CREDIT_SPREAD}
    THEN "CALL" ELSE "PUT"

\* The part of _build_trade_structure after the DTE filter.
BuildFromContracts(cand, od, cond, config, contracts) ==
    LET option_type == OptionTypeOf(config.strategy_type)
        long_contract == ClosestDelta(contracts, config.delta_target)
    IN  IF config.spread_width = 0
        THEN Trade(cand.symbol, config.strategy_type, cond, BiasOf(cond),
                   od.underlying_price, long_contract.dte,
                   << Leg("BUY", option_type, long_contract) >>)
        ELSE _build_spread(cand.symbol, od.underlying_price, long_contract,
                           contracts, config, cond, option_type)

\* The builder without 'if not contracts: return None': min() of an empty
\* list raises ValueError.
BuildNoEmptyCheck(cand, od, cond, config) ==
    IF config.strategy_type = IRON_CONDOR
    THEN IF FilterByDte(od.calls, config.max_dte) = <<>>
            \/ FilterByDte(od.puts, config.max_dte) = <<>>
         THEN Raised("ValueError")
         ELSE _build_iron_condor(cand, od, config)
    ELSE IF config.strategy_type = SKIP THEN None
    ELSE LET contracts ==
                 FilterByDte(ContractsOf(od, config.strategy_type),
                             config.max_dte)
         IN  IF contracts = <<>> THEN Raised("ValueError")
             ELSE BuildFromContracts(cand, od, cond, config, contracts)

_build_trade_structure(cand, od, cond, config) ==
    IF config.strategy_type \in {LONG_CALL, CALL_DEBIT_SPREAD,
                                 CALL_CREDIT_SPREAD, LONG_PUT,
                                 PUT_DEBIT_SPREAD, PUT_CREDIT_SPREAD}
    THEN LET contracts ==
                 FilterByDte(ContractsOf(od, config.strategy_type),
                             config.max_dte)
         IN  IF contracts = <<>> THEN None
             ELSE BuildFromContracts(cand, od, cond, config, contracts)
    ELSE IF config.strategy_type = IRON_CONDOR
    THEN _build_iron_condor(cand, od, config)
    ELSE None

\* select_strategy returns the trade; the model returns the detected
\* condition with it.
select_strategy(cand, od, st) ==
    LET cond == _detect_market_condition(cand, od, st)
        config == get_strategy_config(cond)
    IN  IF config.strategy_type = SKIP
        THEN [condition |-> cond, trade |-> None]
        ELSE [condition |-> cond,
              trade |-> _build_trade_structure(cand, od, cond, config)]

(***************************************************************************)
(* risk_metrics.py                                                         *)
(*                                                                         *)
(* A ratio (risk_reward_ratio) is the exact fraction [num, den], den > 0.  *)
(***************************************************************************)
Ratio(n, d) == [num |-> n, den |-> d]

\* The loop of calculate_trade_metrics: BUY adds price * quantity * 100,
\* any other action subtracts it.
RECURSIVE NetCost(_)
NetCost(legs) ==
    IF legs = <<>> THEN 0
    ELSE LET leg == Head(legs)
             amount == leg.price * leg.quantity * 100
         IN  (IF leg.action = "BUY" THEN amount ELSE 0 - amount)
             + NetCost(Tail(legs))

\* The loop of _calculate_iron_condor_metrics: SELL adds price * 100, any
\* other action subtracts it (the quantity is not read).
RECURSIVE NetCredit(_)
NetCredit(legs) ==
    IF legs = <<>> THEN 0
    ELSE LET leg == Head(legs)
             amount == leg.price * 100
         IN  (IF leg.action = "SELL" THEN amount ELSE 0 - amount)
             + NetCredit(Tail(legs))

\* [leg.get('strike', 0) for leg in legs if leg.get('option_type') == t]
RECURSIVE StrikesOfType(_, _)
StrikesOfType(legs, t) ==
    IF legs = <<>> THEN <<>>
    ELSE (IF Head(legs).option_type = t THEN << Head(legs).strike >>
          ELSE <<>>) \o StrikesOfType(Tail(legs), t)

_calculate_single_option_metrics(trd, legs, net_cost) ==
    LET leg == legs[1]
        max_loss == Abs(net_cost)
    IN  IF leg.option_type = "CALL"
        THEN LET practical_max_gain ==
                     Dollars((trd.underlying_price * 2 - leg.strike) * 100)
                     - max_loss
             IN  [max_loss |-> max_loss,
                  max_gain |-> Max(practical_max_gain, max_loss * 3)]
        ELSE [max_loss |-> max_loss,
              max_gain |-> Dollars(leg.strike * 100) - max_loss]

\* The spread metrics with the strike difference taken without abs().
SpreadMetricsNoAbs(trd, legs, net_cost, is_debit) ==
    LET spread_width == Dollars((legs[1].strike - legs[2].strike) * 100)
    IN  IF is_debit
        THEN [max_loss |-> Abs(net_cost),
              max_gain |-> spread_width - Abs(net_cost),
              spread_width |-> spread_width]
        ELSE [max_loss |-> spread_width - Abs(net_cost),
              max_gain |-> Abs(net_cost),
              spread_width |-> spread_width]

_calculate_spread_metrics(trd, legs, net_cost, is_debit) ==
    IF Len(legs) < 2 THEN [max_loss |-> 0, max_gain |-> 0]
    ELSE
    LET spread_width == Dollars(Abs(legs[1].strike - legs[2].strike) * 100)
    IN  IF is_debit
        THEN LET max_loss == Abs(net_cost)
             IN  [max_loss |-> max_loss,
                  max_gain |-> spread_width - max_loss,
                  spread_width |-> spread_width]
        ELSE LET max_gain == Abs(net_cost)
             IN  [max_loss |-> spread_width - max_gain,
                  max_gain |-> max_gain,
                  spread_width |-> spread_width]

\* _calculate_iron_condor_metrics charging the narrower of the two spreads.
IronCondorMetricsNarrowest(trd, legs) ==
    IF Len(legs) < 4 THEN [max_loss |-> 0, max_gain |-> 0]
    ELSE
    LET net_credit == NetCredit(legs)
        call_strikes == StrikesOfType(legs, "CALL")
        put_strikes == StrikesOfType(legs, "PUT")
        call_spread_width ==
            IF Len(call_strikes) = 2
            THEN Dollars(Abs(call_strikes[1] - call_strikes[2]) * 100)
            ELSE 0
        put_spread_width ==
            IF Len(put_strikes) = 2
            THEN Dollars(Abs(put_strikes[1] - put_strikes[2]) * 100)
            ELSE 0
    IN  [max_loss |-> Min(call_spread_width, put_spread_width) - net_credit,
         max_gain |-> net_credit,
         net_credit |-> net_credit]

_calculate_iron_condor_metrics(trd, legs) ==
    IF Len(legs) < 4 THEN [max_loss |-> 0, max_gain |-> 0]
    ELSE
    LET net_credit == NetCredit(legs)
        call_strikes == StrikesOfType(legs, "CALL")
        put_strikes == StrikesOfType(legs, "PUT")
        call_spread_width ==
            IF Len(call_strikes) = 2
            THEN Dollars(Abs(call_strikes[1] - call_strikes[2]) * 100)
            ELSE 0
        put_spread_width ==
            IF Len(put_strikes) = 2
            THEN Dollars(Abs(put_strikes[1] - put_strikes[2]) * 100)
            ELSE 0
    IN  [max_loss |-> Max(call_spread_width, put_spread_width) - net_credit,
         max_gain |-> net_credit,
         net_credit |-> net_credit]

\* sorted() of a list of one or two strikes.
Sorted2(strikes) ==
    IF Len(strikes) = 2 /\ strikes[1] > strikes[2]
    THEN << strikes[2], strikes[1] >>
    ELSE strikes

\* _calculate_breakeven measuring every call spread from its low strike.
BreakevenCreditFromLowStrike(trd, legs, net_cost) ==
    LET premium == Abs(net_cost) \div 100
    IN  IF Len(legs) = 1
        THEN IF legs[1].option_type = "CALL"
             THEN << Dollars(legs[1].strike) + premium >>
             ELSE << Dollars(legs[1].strike) - premium >>
        ELSE IF HasSpread(trd.strategy)
        THEN LET strikes == Sorted2(<< legs[1].strike, legs[2].strike >>)
             IN  IF HasCall(trd.strategy)
                 THEN << Dollars(strikes[1]) + premium >>
                 ELSE IF net_cost > 0
                      THEN << Dollars(strikes[2]) - premium >>
                      ELSE << Dollars(strikes[1]) + premium >>
        ELSE IF HasIronCondor(trd.strategy)
        THEN LET call_strikes == Sorted2(StrikesOfType(legs, "CALL"))
                 put_strikes == Sorted2(StrikesOfType(legs, "PUT"))
                 upper_breakeven ==
                     IF call_strikes # <<>>
                     THEN Dollars(call_strikes[1]) + premium ELSE 0
                 lower_breakeven ==
                     IF put_strikes # <<>>
                     THEN Dollars(put_strikes[2]) - premium ELSE 0
             IN  << lower_breakeven, upper_breakeven >>
        ELSE <<>>

\* Break-even prices, in half-cents.
_calculate_breakeven(trd, legs, net_cost) ==
    LET premium == Abs(net_cost) \div 100
    IN  IF Len(legs) = 1
        THEN IF legs[1].option_type = "CALL"
             THEN << Dollars(legs[1].strike) + premium >>
             ELSE << Dollars(legs[1].strike) - premium >>
        ELSE IF HasSpread(trd.strategy)
        THEN LET strikes == Sorted2(<< legs[1].strike, legs[2].strike >>)
             IN  IF HasCall(trd.strategy)
                 THEN IF net_cost > 0
                      THEN << Dollars(strikes[1]) + premium >>
                      ELSE << Dollars(strikes[2]) - premium >>
                 ELSE IF net_cost > 0
                      THEN << Dollars(strikes[2]) - premium >>
                      ELSE << Dollars(strikes[1]) + premium >>
        ELSE IF HasIronCondor(trd.strategy)
        THEN LET call_strikes == Sorted2(StrikesOfType(legs, "CALL"))
                 put_strikes == Sorted2(StrikesOfType(legs, "PUT"))
                 upper_breakeven ==
                     IF call_strikes # <<>>
                     THEN Dollars(call_strikes[1]) + premium ELSE 0
                 lower_breakeven ==
                     IF put_strikes # <<>>
                     THEN Dollars(put_strikes[2]) - premium ELSE 0
             IN  << lower_breakeven, upper_breakeven >>
        ELSE <<>>

\* calculate_trade_metrics reporting the net cost with its sign.
TradeMetricsSignedNetCost(trd) ==
    LET legs == trd.legs
    IN  IF legs = <<>> THEN EmptyDict
        ELSE
        LET net_cost == NetCost(legs)
            is_debit == net_cost > 0
            metrics ==
                IF HasSpread(trd.strategy)
                THEN _calculate_spread_metrics(trd, legs, net_cost, is_debit)
                ELSE IF HasIronCondor(trd.strategy)
                THEN _calculate_iron_condor_metrics(trd, legs)
                ELSE _calculate_single_option_metrics(trd, legs, net_cost)
        IN  [net_cost |-> net_cost,
             is_debit |-> is_debit,
             risk_reward_ratio |->
                 IF metrics.max_loss > 0
                 THEN Ratio(metrics.max_gain, metrics.max_loss)
                 ELSE Ratio(0, 1),
             breakeven_points |-> _calculate_breakeven(trd, legs, net_cost)]
            @@ metrics

\* calculate_trade_metrics dividing max_loss by max_gain.
TradeMetricsInvertedRatio(trd) ==
    LET legs == trd.legs
    IN  IF legs = <<>> THEN EmptyDict
        ELSE
        LET net_cost == NetCost(legs)
            is_debit == net_cost > 0
            metrics ==
                IF HasSpread(trd.strategy)
                THEN _calculate_spread_metrics(trd, legs, net_cost, is_debit)
                ELSE IF HasIronCondor(trd.strategy)
                THEN _calculate_iron_condor_metrics(trd, legs)
                ELSE _calculate_single_option_metrics(trd, legs, net_cost)
        IN  [net_cost |-> Abs(net_cost),
             is_debit |-> is_debit,
             risk_reward_ratio |->
                 IF metrics.max_loss > 0
                 THEN Ratio(metrics.max_loss, metrics.max_gain)
                 ELSE Ratio(0, 1),
             breakeven_points |-> _calculate_breakeven(trd, legs, net_cost)]
            @@ metrics

calculate_trade_metrics(trd) ==
    LET legs == trd.legs
    IN  IF legs = <<>> THEN EmptyDict
        ELSE
        LET net_cost == NetCost(legs)
            is_debit == net_cost > 0
            metrics ==
                IF HasSpread(trd.strategy)
                THEN _calculate_spread_metrics(trd, legs, net_cost, is_debit)
                ELSE IF HasIronCondor(trd.strategy)
                THEN _calculate_iron_condor_metrics(trd, legs)
                ELSE _calculate_single_option_metrics(trd, legs, net_cost)
        IN  [net_cost |-> Abs(net_cost),
             is_debit |-> is_debit,
             risk_reward_ratio |->
                 IF metrics.max_loss > 0
                 THEN Ratio(metrics.max_gain, metrics.max_loss)
                 ELSE Ratio(0, 1),
             breakeven_points |-> _calculate_breakeven(trd, legs, net_cost)]
            @@ metrics

\* calculate_position_size without the cap at 2% of the account.
PositionSizeNoAccountCap(account_size, max_loss_per_trade, trade_max_loss) ==
    IF trade_max_loss <= 0 THEN 0
    ELSE Max(TruncDiv(max_loss_per_trade, trade_max_loss), 1)

\* account_size * 0.02 / trade_max_loss is account_size * 2 / (100 *
\* trade_max_loss).
calculate_position_size(account_size, max_loss_per_trade, trade_max_loss) ==
    IF trade_max_loss <= 0 THEN 0
    ELSE LET max_contracts_by_risk ==
                 TruncDiv(max_loss_per_trade, trade_max_loss)
             max_contracts_by_account ==
                 TruncDiv(account_size * 2, 100 * trade_max_loss)
             position_size ==
                 Min(max_contracts_by_risk, max_contracts_by_account)
         IN  Max(position_size, 1)

(***************************************************************************)
(* Exact fractions, for the scorer's float arithmetic                      *)
(***************************************************************************)
RECURSIVE GCD(_, _)
GCD(a, b) == IF b = 0 THEN a ELSE GCD(b, a % b)

RNorm(n, d) ==
    LET g == GCD(Abs(n), Abs(d))
        sgn == IF d < 0 THEN 0 - 1 ELSE 1
    IN  IF n = 0 THEN Ratio(0, 1)
        ELSE Ratio(sgn * (n \div g), sgn * (d \div g))

RInt(k) == Ratio(k, 1)

RAdd(x, y) ==
    LET g == GCD(x.den, y.den)
    IN  RNorm(x.num * (y.den \div g) + y.num * (x.den \div g),
              (x.den \div g) * y.den)

RScale(x, n, d) ==
    LET a == RNorm(x.num, d)
        b == RNorm(n, x.den)
    IN  RNorm(a.num * b.num, a.den * b.den)

RLeq(x, y) == x.num * y.den <= y.num * x.den

RMin(x, y) == IF RLeq(x, y) THEN x ELSE y

RMax(x, y) == IF RLeq(x, y) THEN y ELSE x

\* round(x, 1) in tenths: to the nearest tenth, a tie to the even one.
RoundTenths(x) ==
    LET n == x.num * 10
        fl == n \div x.den
        twice == 2 * (n - fl * x.den)
    IN  IF twice < x.den THEN fl
        ELSE IF twice > x.den THEN fl + 1
        ELSE IF fl % 2 = 0 THEN fl ELSE fl + 1

(***************************************************************************)
(* trade_scorer.py                                                         *)
(*                                                                         *)
(* Probability metrics are {} or [probability_itm, monte_carlo], with      *)
(* monte_carlo = [probability_profit]; probabilities are whole percents.   *)
(* Sub-scores are exact fractions of a point.                              *)
(***************************************************************************)
\* _score_probability scoring the probability of a loss.
ScoreProbabilityOfLoss(pm) ==
    IF pm = EmptyDict THEN RInt(0)
    ELSE RInt(100 - pm.monte_carlo.probability_profit)

_score_probability(pm) ==
    IF pm = EmptyDict THEN RInt(0)
    ELSE RInt(pm.monte_carlo.probability_profit)

_score_risk_reward(rm) ==
    IF rm = EmptyDict THEN RInt(0)
    ELSE RScale(RMin(RScale(rm.risk_reward_ratio, 1, 3), RInt(1)), 100, 1)

_score_iv_edge(trd, od) ==
    IF trd.legs = <<>> THEN 50
    ELSE IF trd.strategy \in {CALL_DEBIT_SPREAD, PUT_DEBIT_SPREAD,
                              LONG_CALL, LONG_PUT}
    THEN IF trd.condition \in {BULLISH_BREAKOUT, BEARISH_BREAKOUT}
         THEN 80 ELSE 60
    ELSE IF trd.strategy \in {CALL_CREDIT_SPREAD, PUT_CREDIT_SPREAD,
                              IRON_CONDOR}
    THEN IF trd.condition \in {HIGH_IV_RANGE, CHOPPY} THEN 80 ELSE 60
    ELSE 50

\* The score of one matched contract.
LegLiquidityScore(c) ==
    LET oi_score ==
            IF c.openInterest >= 1000
            THEN RMin(RNorm((c.openInterest - 1000) * 100, 4000), RInt(100))
            ELSE RInt(0)
        vol_score ==
            IF c.totalVolume >= 300
            THEN RMin(RNorm((c.totalVolume - 300) * 100, 700), RInt(100))
            ELSE RInt(0)
        spread_score ==
            IF c.bid > 0 /\ c.ask > 0
            THEN RMax(RAdd(RInt(100),
                           RNorm(0 - (c.ask - c.bid) * 4000, c.ask + c.bid)),
                      RInt(0))
            ELSE RInt(0)
    IN  RAdd(RAdd(RScale(oi_score, 4, 10), RScale(vol_score, 4, 10)),
             RScale(spread_score, 2, 10))

\* The scores of the legs that match a contract, in leg order.
RECURSIVE LegScores(_, _)
LegScores(legs, all_contracts) ==
    IF legs = <<>> THEN <<>>
    ELSE LET leg == Head(legs)
             matching ==
                 SelectSeq(all_contracts,
                           LAMBDA c : /\ c.strikePrice = leg.strike
                                      /\ c.option_type = leg.option_type)
         IN  (IF matching # <<>>
              THEN << LegLiquidityScore(matching[1]) >> ELSE <<>>)
             \o LegScores(Tail(legs), all_contracts)

RECURSIVE RSum(_)
RSum(xs) == IF xs = <<>> THEN RInt(0) ELSE RAdd(Head(xs), RSum(Tail(xs)))

_score_liquidity(trd, od) ==
    IF trd.legs = <<>> THEN RInt(0)
    ELSE
    LET all_contracts ==
            (IF trd.bias \in {"bullish", "neutral"} THEN od.calls ELSE <<>>)
            \o (IF trd.bias \in {"bearish", "neutral"} THEN od.puts
                ELSE <<>>)
        leg_scores == LegScores(trd.legs, all_contracts)
    IN  IF all_contracts = <<>> THEN RInt(50)
        ELSE IF leg_scores = <<>> THEN RInt(50)
        ELSE RScale(RSum(leg_scores), 1, Len(leg_scores))

_score_trend_alignment(trd) ==
    IF trd.condition \in {STRONG_BULLISH, STRONG_BEARISH} THEN 90
    ELSE IF trd.condition \in {BULLISH_BREAKOUT, BEARISH_BREAKOUT} THEN 80
    ELSE IF trd.condition = HIGH_IV_RANGE THEN 70
    ELSE IF trd.condition = CHOPPY
    THEN IF trd.bias = "neutral" THEN 75 ELSE 50
    ELSE 60

\* The composite score, in tenths of a point.
score_trade(trd, pm, rm, od, st) ==
    LET prob_score == _score_probability(pm)
        rr_score == _score_risk_reward(rm)
        iv_score == RInt(_score_iv_edge(trd, od))
        liquidity_score == _score_liquidity(trd, od)
        trend_score == RInt(_score_trend_alignment(trd))
        total_score ==
            RAdd(RAdd(RAdd(RAdd(
                RScale(prob_score, st.weight_probability, 100),
                RScale(rr_score, st.weight_risk_reward, 100)),
                RScale(iv_score, st.weight_iv_edge, 100)),
                RScale(liquidity_score, st.weight_liquidity, 100)),
                RScale(trend_score, st.weight_trend, 100))
    IN  RoundTenths(total_score)

\* seq[:n] of Python.
SliceTo(seq, n) ==
    IF n >= 0 THEN SubSeq(seq, 1, Min(n, Len(seq)))
    ELSE SubSeq(seq, 1, Max(Len(seq) + n, 0))

\* Inserts t before the elements of equal score: not stable.
RECURSIVE InsertDescUnstable(_, _)
InsertDescUnstable(sorted, t) ==
    IF sorted = <<>> THEN << t >>
    ELSE IF Head(sorted).score > t.score
         THEN << Head(sorted) >> \o InsertDescUnstable(Tail(sorted), t)
         ELSE << t >> \o sorted

\* Inserts t behind every element whose score is >= t's.
RECURSIVE InsertDesc(_, _)
InsertDesc(sorted, t) ==
    IF sorted = <<>> THEN << t >>
    ELSE IF Head(sorted).score >= t.score
         THEN << Head(sorted) >> \o InsertDesc(Tail(sorted), t)
         ELSE << t >> \o sorted

\* sorted(seq, key=score, reverse=True): stable, descending.
RECURSIVE SortedDesc(_)
SortedDesc(seq) ==
    IF seq = <<>> THEN <<>>
    ELSE InsertDesc(SortedDesc(SubSeq(seq, 1, Len(seq) - 1)), seq[Len(seq)])

rank_trades(scored_trades, st) ==
    LET filtered ==
            SelectSeq(scored_trades,
                      LAMBDA t : t.score >= st.min_trade_score)
        ranked == SortedDesc(filtered)
    IN  SliceTo(ranked, st.max_trades_output)

(***************************************************************************)
(* Inputs: scanner candidates, option universes, settings                  *)
(***************************************************************************)
\* Candidates of one scan, at most.
MaxCandidates == 2

Signal(bias, atr, volume, avg_volume) ==
    [vwap_bias |-> bias, atr |-> atr, volume |-> volume,
     avg_volume |-> avg_volume]

Contract(option_type, strike, dte, delta, bid, ask, volatility) ==
    [option_type |-> option_type, strikePrice |-> strike, dte |-> dte,
     delta |-> delta, bid |-> bid, ask |-> ask, volatility |-> volatility,
     openInterest |-> 5000, totalVolume |-> 1000]

\* A chain around an underlying at 100: calls and puts at the given strikes,
\* one expiry, one implied volatility.
CallAt(strike, dte, volatility) ==
    CASE strike = 95  -> Contract("CALL", 95, dte, 75, 540, 560, volatility)
      [] strike = 100 -> Contract("CALL", 100, dte, 52, 195, 205, volatility)
      [] strike = 105 -> Contract("CALL", 105, dte, 22, 78, 82, volatility)

PutAt(strike, dte, volatility) ==
    CASE strike = 95  -> Contract("PUT", 95, dte, 0 - 20, 68, 72, volatility)
      [] strike = 100 -> Contract("PUT", 100, dte, 0 - 48, 185, 195, volatility)
      [] strike = 105 -> Contract("PUT", 105, dte, 0 - 75, 530, 550, volatility)

Universe(calls, puts) ==
    [underlying_price |-> 100, calls |-> calls, puts |-> puts]

\* What filter_options can return for a symbol: None, or a universe with at
\* least one contract, every contract with dte within the scan range.
UniversePool ==
    { None,
      Universe(<< CallAt(95, 1, 15), CallAt(100, 1, 15), CallAt(105, 1, 15) >>,
               << PutAt(95, 1, 15), PutAt(100, 1, 15), PutAt(105, 1, 15) >>),
      Universe(<< CallAt(95, 1, 70), CallAt(100, 1, 70), CallAt(105, 1, 70) >>,
               << PutAt(95, 1, 70), PutAt(100, 1, 70), PutAt(105, 1, 70) >>),
      Universe(<< CallAt(100, 0, 35) >>, <<>>),
      Universe(<< CallAt(100, 5, 45), CallAt(105, 5, 45) >>,
               << PutAt(95, 5, 45), PutAt(100, 5, 45) >>) }

\* What scan_market lets through: atr >= min_atr, volume >= 1.3 avg_volume.
SignalPool ==
    { Signal("bullish", 30, 25, 10),
      Signal("bearish", 20, 16, 10),
      Signal("neutral", 20, 13, 10) }

\* Environments a run can start in: the defaults; one that lowers the
\* extreme-IV threshold, the minimum score and the output count; one with a
\* negative scoring weight; one with the low and high IV thresholds inverted.
Environments ==
    { DefaultSettings,
      Settings(30, 60, 80, 600, 1),
      [DefaultSettings EXCEPT !.weight_trend = 0 - 10],
      Settings(60, 30, 100, 700, 5) }

\* load_settings: Settings() takes every field from the environment (or its
\* default); the class declares no validator, so every value is accepted.
load_settings(env) == env

\* The settings TradingSystem.__init__ can end up with.
RunSettings == { load_settings(env) : env \in Environments }

\* Results of _calculate_probabilities when it computes: the Monte Carlo
\* fraction is random, the closed-form value is not computed here.
ProbPool ==
    { [probability_itm |-> 40, monte_carlo |-> [probability_profit |-> 45]],
      [probability_itm |-> 70, monte_carlo |-> [probability_profit |-> 72]] }

\* All sequences over S of length at most n.
RECURSIVE SeqsUpTo(_, _)
SeqsUpTo(S, n) ==
    IF n = 0 THEN { <<>> }
    ELSE LET shorter == SeqsUpTo(S, n - 1)
         IN  shorter \cup { Append(q, x) : q \in shorter, x \in S }

NoCondition == "none"

(***************************************************************************)
(* main.py: TradingSystem.run                                              *)
(***************************************************************************)
NoCall == op = "none" /\ args = None /\ result = None

Init ==
    /\ settings \in RunSettings
    /\ pc = "scan"
    /\ candidates = <<>>
    /\ idx = 0
    /\ options_data = None
    /\ condition = NoCondition
    /\ trade = None
    /\ prob_metrics = None
    /\ risk_metrics = None
    /\ steps = <<>>
    /\ outcome = <<>>
    /\ all_trades = <<>>
    /\ top_trades = <<>>
    /\ NoCall

\* candidates = self.scanner.scan_market(symbols); 'if not candidates: return'
ScanMarket ==
    /\ pc = "scan"
    /\ \E sigs \in SeqsUpTo(SignalPool, MaxCandidates) :
          /\ candidates' =
                 [i \in 1..Len(sigs) |-> [symbol |-> i] @@ sigs[i]]
          /\ IF sigs = <<>>
             THEN pc' = "done" /\ idx' = idx
             ELSE pc' = "filter" /\ idx' = 1
    /\ UNCHANGED <<settings, options_data, condition, trade, prob_metrics,
                   risk_metrics, steps, outcome, all_trades, top_trades>>
    /\ UNCHANGED callVars

\* The end of the loop body leaving the loop after the first candidate.
AdvanceToRank(o) ==
    /\ outcome' = Append(outcome, o)
    /\ idx' = idx
    /\ pc' = "rank"

\* progress.advance(task2); continue -- or the end of the loop body.
Advance(o) ==
    /\ outcome' = Append(outcome, o)
    /\ IF idx < Len(candidates)
       THEN idx' = idx + 1 /\ pc' = "filter"
       ELSE idx' = idx /\ pc' = "rank"

\* options_data = self.options_filter.filter_options(symbol)
FilterOptions ==
    /\ pc = "filter"
    /\ \E od \in UniversePool :
          /\ options_data' = od
          /\ steps' = << "filter_options" >>
          /\ IF od = None
             THEN Advance("skipped")
             ELSE pc' = "select" /\ UNCHANGED <<idx, outcome>>
    /\ UNCHANGED <<settings, candidates, condition, trade, prob_metrics,
                   risk_metrics, all_trades, top_trades>>
    /\ UNCHANGED callVars

\* trade = self.strategy_selector.select_strategy(candidate, options_data)
SelectStrategy ==
    /\ pc = "select"
    /\ LET r == select_strategy(candidates[idx], options_data, settings)
       IN  /\ condition' = r.condition
           /\ trade' = r.trade
           /\ steps' = Append(steps, "select_strategy")
           /\ IF IsRaised(r.trade)
              THEN pc' = "raised" /\ UNCHANGED <<idx, outcome>>
              ELSE IF r.trade = None
              THEN Advance("skipped")
              ELSE pc' = "prob" /\ UNCHANGED <<idx, outcome>>
    /\ UNCHANGED <<settings, candidates, options_data, prob_metrics,
                   risk_metrics, all_trades, top_trades>>
    /\ UNCHANGED callVars

\* prob_metrics = self._calculate_probabilities(trade)
CalculateProbabilities ==
    /\ pc = "prob"
    /\ IF trade.legs = <<>> \/ trade.dte <= 0
       THEN prob_metrics' = EmptyDict
       ELSE prob_metrics' \in ProbPool
    /\ steps' = Append(steps, "_calculate_probabilities")
    /\ pc' = "risk"
    /\ UNCHANGED <<settings, candidates, idx, options_data, condition, trade,
                   risk_metrics, outcome, all_trades, top_trades>>
    /\ UNCHANGED callVars

\* expected_value = p * max_gain - (1 - p) * max_loss, p in percent.
calculate_expected_value(probability_profit, max_gain, max_loss) ==
    RNorm(probability_profit * max_gain
          - (100 - probability_profit) * max_loss, 100)

\* risk_metrics = RiskMetrics.calculate_trade_metrics(trade), and the
\* expected value added when both metric sets are non-empty.
CalculateRiskMetrics ==
    /\ pc = "risk"
    /\ LET rm == calculate_trade_metrics(trade)
       IN  risk_metrics' =
               IF prob_metrics # EmptyDict /\ rm # EmptyDict
               THEN [expected_value |->
                         calculate_expected_value(
                             prob_metrics.probability_itm,
                             rm.max_gain, rm.max_loss)] @@ rm
               ELSE rm
    /\ steps' = Append(steps, "calculate_trade_metrics")
    /\ pc' = "score"
    /\ UNCHANGED <<settings, candidates, idx, options_data, condition, trade,
                   prob_metrics, outcome, all_trades, top_trades>>
    /\ UNCHANGED callVars

\* score = self.scorer.score_trade(...); the trade is enriched and appended.
ScoreTrade ==
    /\ pc = "score"
    /\ LET score == score_trade(trade, prob_metrics, risk_metrics,
                                options_data, settings)
           enriched == [score |-> score,
                        probability_metrics |-> prob_metrics,
                        risk_metrics |-> risk_metrics] @@ trade
       IN  /\ trade' = enriched
           /\ all_trades' = Append(all_trades, enriched)
    /\ steps' = Append(steps, "score_trade")
    /\ Advance("scored")
    /\ UNCHANGED <<settings, candidates, options_data, condition,
                   prob_metrics, risk_metrics, top_trades>>
    /\ UNCHANGED callVars

\* 'if not all_trades: return'; top_trades = self.scorer.rank_trades(
\* all_trades); 'if not top_trades: return'
RankTrades ==
    /\ pc = "rank"
    /\ IF all_trades = <<>>
       THEN top_trades' = top_trades /\ pc' = "done"
       ELSE /\ top_trades' = rank_trades(all_trades, settings)
            /\ pc' = IF top_trades' = <<>> THEN "done" ELSE "output"
    /\ UNCHANGED <<settings, candidates, idx, options_data, condition, trade,
                   prob_metrics, risk_metrics, steps, outcome, all_trades>>
    /\ UNCHANGED callVars

\* self._display_trades(top_trades); self._generate_outputs(top_trades)
GenerateOutputs ==
    /\ pc = "output"
    /\ pc' = "done"
    /\ UNCHANGED <<settings, candidates, idx, options_data, condition, trade,
                   prob_metrics, risk_metrics, steps, outcome, all_trades,
                   top_trades>>
    /\ UNCHANGED callVars

\* rank_trades has been called in this run.
RankCalled == pc \in {"output", "done"} /\ all_trades # <<>>

Next ==
    \/ ScanMarket
    \/ FilterOptions
    \/ SelectStrategy
    \/ CalculateProbabilities
    \/ CalculateRiskMetrics
    \/ ScoreTrade
    \/ RankTrades
    \/ GenerateOutputs

Spec == Init /\ [][Next]_vars

(***************************************************************************)
(* Properties of TradingSystem.run                                         *)
(***************************************************************************)
\* The positions at which an action of the run is enabled.
RunSteps ==
    {"scan", "filter", "select", "prob", "risk", "score", "rank", "output"}

MetricCalls ==
    {"_calculate_probabilities", "calculate_trade_metrics", "score_trade"}

LastOutcome == outcome[Len(outcome)]

\* C1: a candidate classified news_spike, the regime whose template is the
\* skip shape, gets no Trade from select_strategy and is never handed to the
\* probability, risk or scoring step; no trade of the skip shape or of the
\* news_spike regime is in all_trades (the list given to rank_trades) or in
\* the ranked list.
C1_SkipNeverScoredOrRanked ==
    /\ condition = NEWS_SPIKE =>
          /\ trade = None
          /\ pc \notin {"prob", "risk", "score"}
          /\ \A i \in 1..Len(steps) : steps[i] \notin MetricCalls
    /\ \A i \in 1..Len(all_trades) :
          /\ all_trades[i].strategy # SKIP
          /\ all_trades[i].condition # NEWS_SPIKE
    /\ \A i \in 1..Len(top_trades) :
          /\ top_trades[i].strategy # SKIP
          /\ top_trades[i].condition # NEWS_SPIKE

\* C1 witness: the last candidate of a scan was classified news_spike and
\* skipped right after select_strategy, an earlier one was scored, and
\* rank_trades has run.
C1_Witness ==
    /\ condition = NEWS_SPIKE
    /\ get_strategy_config(condition).strategy_type = SKIP
    /\ steps = << "filter_options", "select_strategy" >>
    /\ outcome # <<>> /\ LastOutcome = "skipped"
    /\ RankCalled

\* The DTE-filtered contract list that the shape of regime cond reads is
\* empty in universe od (for an iron condor: the call or the put list).
NoContracts(cond, od) ==
    LET config == get_strategy_config(cond)
    IN  IF config.strategy_type = IRON_CONDOR
        THEN \/ FilterByDte(od.calls, config.max_dte) = <<>>
             \/ FilterByDte(od.puts, config.max_dte) = <<>>
        ELSE /\ config.strategy_type # SKIP
             /\ FilterByDte(ContractsOf(od, config.strategy_type),
                            config.max_dte) = <<>>

\* The current candidate's data is missing and select_strategy, if it was
\* called, was the last call made for it.
MissingData ==
    \/ steps = << "filter_options" >> /\ options_data = None
    \/ /\ steps = << "filter_options", "select_strategy" >>
       /\ NoContracts(condition, options_data)

\* C5: missing data is never fatal.  No step of the run raises; when the
\* option universe is absent, or the DTE-filtered list of the shape's class
\* is empty, the candidate gets no Trade and is recorded as skipped; the run
\* is always at one of its steps (each of which can be taken) or done, every
\* candidate the loop has passed is either scored or skipped, and at the end
\* of the loop that is every candidate of the scan.
C5_MissingDataNeverFatal ==
    /\ pc # "raised"
    /\ MissingData =>
          /\ trade = None \/ steps = << "filter_options" >>
          /\ outcome # <<>> /\ LastOutcome = "skipped"
          /\ pc \in {"filter", "rank", "output", "done"}
    /\ pc \in RunSteps \cup {"done"}
    /\ pc \in {"filter", "select", "prob", "risk", "score"} =>
          /\ idx \in 1..Len(candidates)
          /\ Len(outcome) = idx - 1
    /\ pc \in {"rank", "output", "done"} => Len(outcome) = Len(candidates)
    /\ \A i \in 1..Len(outcome) : outcome[i] \in {"scored", "skipped"}
    /\ Len(all_trades)
         = Cardinality({i \in 1..Len(outcome) : outcome[i] = "scored"})

\* C5 witness: a scan of two candidates or more ended; one candidate had no
\* contract of its shape's class within the DTE limit and was skipped, and
\* another was scored.
C5_Witness ==
    /\ pc = "done"
    /\ Len(candidates) >= 2
    /\ MissingData
    /\ steps = << "filter_options", "select_strategy" >>
    /\ \E i \in 1..Len(outcome) : outcome[i] = "scored"

(***************************************************************************)
(* Direct calls of one function.  Each specification below starts with the *)
(* arguments of one call and applies the function; the variables of        *)
(* TradingSystem.run stay at their initial values.                         *)
(***************************************************************************)
RunIdle ==
    /\ candidates = <<>>
    /\ idx = 0
    /\ options_data = None
    /\ condition = NoCondition
    /\ trade = None
    /\ prob_metrics = None
    /\ risk_metrics = None
    /\ steps = <<>>
    /\ outcome = <<>>
    /\ all_trades = <<>>
    /\ top_trades = <<>>

(***************************************************************************)
(* StrategySelector.select_strategy, called directly                       *)
(***************************************************************************)
\* Candidates on both sides of every threshold of the cascade: volume ratios
\* 1.0 to 2.5 (and the avg_volume = 0 case, ratio 1), ATR 2.0, 2.5 and 3.0.
SelectSignals ==
    { [symbol |-> 1] @@ Signal(bias, atr, volume, 10) :
          bias \in {"bullish", "bearish", "neutral"},
          atr \in {20, 25, 30},
          volume \in {10, 13, 15, 16, 20, 25} }
    \cup { [symbol |-> 1] @@ Signal(bias, 30, 25, 0) :
               bias \in {"bullish", "bearish", "neutral"} }

\* Universes whose at-the-money call has an IV in each band of
\* _estimate_iv_percentile, and one without calls.
SelectUniverses ==
    { Universe(<< CallAt(100, 1, v), CallAt(105, 1, v) >>,
               << PutAt(95, 1, v), PutAt(100, 1, v) >>) :
          v \in {15, 25, 35, 50, 70} }
    \cup { Universe(<<>>, << PutAt(95, 1, 35), PutAt(100, 1, 35) >>) }

\* The default thresholds, and environments that lower the extreme-IV
\* threshold below the percentiles the estimate can return.
SelectSettings ==
    { DefaultSettings, Settings(30, 60, 80, 700, 5), Settings(30, 60, 40, 700, 5) }

InitSelect ==
    /\ settings \in SelectSettings
    /\ pc = "call"
    /\ op = "select_strategy"
    /\ args \in [candidate : SelectSignals, options_data : SelectUniverses]
    /\ result = None
    /\ RunIdle

\* trade = selector.select_strategy(candidate, options_data)
CallSelectStrategy ==
    /\ pc = "call"
    /\ op = "select_strategy"
    /\ result' = select_strategy(args.candidate, args.options_data, settings)
    /\ pc' = "returned"
    /\ UNCHANGED <<op, args>>
    /\ UNCHANGED idleVars

NextSelect == CallSelectStrategy

SpecSelect == InitSelect /\ [][NextSelect]_vars

\* select_strategy has returned.
SelectReturned == op = "select_strategy" /\ pc = "returned"

Directional(cand) == cand.vwap_bias \in {"bullish", "bearish"}

\* The six rules in their order: whether the rule matches, and its regime.
CascadeRules(cand, iv_percentile, st) ==
    LET bullish == cand.vwap_bias = "bullish"
        neutral == cand.vwap_bias = "neutral"
    IN  << [matches |-> iv_percentile > st.extreme_iv_threshold,
            regime |-> NEWS_SPIKE],
           [matches |-> /\ VolumeRatioGT(cand, 20) /\ cand.atr > 25
                        /\ Directional(cand),
            regime |-> IF bullish THEN STRONG_BULLISH ELSE STRONG_BEARISH],
           [matches |-> /\ VolumeRatioGT(cand, 15)
                        /\ iv_percentile < st.low_iv_threshold
                        /\ Directional(cand),
            regime |-> IF bullish THEN BULLISH_BREAKOUT ELSE BEARISH_BREAKOUT],
           [matches |-> iv_percentile > st.high_iv_threshold /\ neutral,
            regime |-> HIGH_IV_RANGE],
           [matches |-> neutral /\ VolumeRatioLT(cand, 15),
            regime |-> CHOPPY],
           [matches |-> TRUE,
            regime |-> IF neutral THEN CHOPPY
                       ELSE IF bullish THEN BULLISH_BREAKOUT
                       ELSE BEARISH_BREAKOUT] >>

\* C3: for every bias, volume ratio, ATR and IV percentile the classifier
\* returns one regime, the regime of the first rule that matches in the
\* order news-spike, strong momentum (by bias), breakout (by bias), high-IV
\* range, choppy, default; a directional signal with volume ratio > 2.0 and
\* ATR > 2.5 that is not a news spike is classified strong-<bias> whatever
\* the later rules say.  (Rules 2 and 3 give a regime "by bias", so they
\* match directional signals only.)
C3_FirstMatchingRuleWins ==
    SelectReturned =>
        LET cand == args.candidate
            ivp == _estimate_iv_percentile(args.options_data)
            rules == CascadeRules(cand, ivp, settings)
            first == CHOOSE k \in 1..Len(rules) :
                         /\ rules[k].matches
                         /\ \A j \in 1..(k - 1) : ~rules[j].matches
        IN  /\ result.condition \in MarketCondition
            /\ result.condition = rules[first].regime
            /\ ( /\ Directional(cand)
                 /\ VolumeRatioGT(cand, 20) /\ cand.atr > 25
                 /\ ivp <= settings.extreme_iv_threshold )
               => result.condition
                    = IF cand.vwap_bias = "bullish" THEN STRONG_BULLISH
                      ELSE STRONG_BEARISH

\* C3 witness: a bullish signal with volume ratio 2.5, ATR 3.0 and an IV
\* percentile below the low threshold (the breakout rule matches as well) was
\* classified strong-bullish.
C3_Witness ==
    /\ SelectReturned
    /\ args.candidate.vwap_bias = "bullish"
    /\ VolumeRatioGT(args.candidate, 20) /\ args.candidate.atr > 25
    /\ _estimate_iv_percentile(args.options_data) < settings.low_iv_threshold
    /\ result.condition = STRONG_BULLISH

\* C4: whenever the estimated IV percentile exceeds the extreme-IV
\* threshold, the classifier returns news-spike whatever the bias, volume
\* ratio and ATR; the template of news-spike is the skip shape; and
\* select_strategy returns no Trade.
C4_ExtremeIvIsNewsSpikeSkip ==
    ( /\ SelectReturned
      /\ _estimate_iv_percentile(args.options_data)
           > settings.extreme_iv_threshold )
    => /\ result.condition = NEWS_SPIKE
       /\ get_strategy_config(result.condition).strategy_type = SKIP
       /\ result.trade = None

\* C4 witness: a bullish signal with volume ratio 2.5 and ATR 3.0, over a
\* universe with calls within the DTE limit, had an IV percentile above the
\* extreme threshold and got news-spike and no Trade.
C4_Witness ==
    /\ SelectReturned
    /\ _estimate_iv_percentile(args.options_data)
         > settings.extreme_iv_threshold
    /\ args.candidate.vwap_bias = "bullish"
    /\ VolumeRatioGT(args.candidate, 20) /\ args.candidate.atr > 25
    /\ FilterByDte(args.options_data.calls, 7) # <<>>
    /\ result.condition = NEWS_SPIKE
    /\ result.trade = None

(***************************************************************************)
(* StrategySelector._build_trade_structure followed by                     *)
(* RiskMetrics.calculate_trade_metrics, called directly                    *)
(***************************************************************************)
\* Contracts of one list, at most.
MaxContracts == 2

\* Bid and ask in cents: mids 0.80, 2.00 and 7.00.
BuildQuotes == { << 78, 82 >>, << 195, 205 >>, << 690, 710 >> }

\* Contracts as filter_options keeps them (positive bid and ask, a delta):
\* any of three strikes with any of two delta magnitudes and any quote,
\* expiring within every template's DTE limit, and two that expire later.
BuildContracts ==
    { Contract("CALL", strike, 1, delta, q[1], q[2], 35) :
          strike \in {95, 100, 105}, delta \in {30, 50}, q \in BuildQuotes }
    \cup { Contract("CALL", 100, 9, 50, 195, 205, 35),
           Contract("CALL", 105, 9, 30, 78, 82, 35) }

\* The put list with the strikes, expiries and quotes of a call list.
AsPuts(calls) ==
    [i \in 1..Len(calls) |->
        [calls[i] EXCEPT !.option_type = "PUT", !.delta = 0 - calls[i].delta]]

InitBuild ==
    /\ settings = DefaultSettings
    /\ pc = "call"
    /\ op = "_build_trade_structure"
    /\ \E calls \in SeqsUpTo(BuildContracts, MaxContracts),
          cond \in MarketCondition :
          args = [candidate |-> [symbol |-> 1],
                  options_data |-> Universe(calls, AsPuts(calls)),
                  condition |-> cond,
                  config |-> get_strategy_config(cond)]
    /\ result = None
    /\ RunIdle

\* trade = self._build_trade_structure(candidate, options_data, condition,
\*                                     config)
CallBuildTradeStructure ==
    /\ pc = "call"
    /\ op = "_build_trade_structure"
    /\ result' = [trade |-> _build_trade_structure(
                                args.candidate, args.options_data,
                                args.condition, args.config)]
    /\ pc' = "built"
    /\ UNCHANGED <<op, args>>
    /\ UNCHANGED idleVars

\* risk_metrics = RiskMetrics.calculate_trade_metrics(trade), for a trade
\* that was built.
CallCalculateTradeMetrics ==
    /\ pc = "built"
    /\ op = "_build_trade_structure"
    /\ result.trade # None
    /\ result' = [trade |-> result.trade,
                  metrics |-> calculate_trade_metrics(result.trade)]
    /\ pc' = "measured"
    /\ UNCHANGED <<op, args>>
    /\ UNCHANGED idleVars

\* score = scorer.score_trade(trade, prob_metrics, risk_metrics,
\* options_data), with the probability metrics _calculate_probabilities
\* gives for the trade; the five component scores are kept with the total.
CallScoreTrade ==
    /\ pc = "measured"
    /\ op = "_build_trade_structure"
    /\ \E pm \in (IF result.trade.legs = <<>> \/ result.trade.dte <= 0
                  THEN {EmptyDict} ELSE ProbPool) :
          result' =
              [trade |-> result.trade,
               metrics |-> result.metrics,
               prob_metrics |-> pm,
               components |->
                   [probability |-> _score_probability(pm),
                    risk_reward |-> _score_risk_reward(result.metrics),
                    iv_edge |-> RInt(_score_iv_edge(result.trade,
                                                    args.options_data)),
                    liquidity |-> _score_liquidity(result.trade,
                                                   args.options_data),
                    trend |-> RInt(_score_trend_alignment(result.trade))],
               score |-> score_trade(result.trade, pm, result.metrics,
                                     args.options_data, settings)]
    /\ pc' = "scored"
    /\ UNCHANGED <<op, args>>
    /\ UNCHANGED idleVars

NextBuild ==
    \/ CallBuildTradeStructure
    \/ CallCalculateTradeMetrics
    \/ CallScoreTrade

SpecBuild == InitBuild /\ [][NextBuild]_vars

\* The builder has returned a Trade.
TradeBuilt ==
    /\ op = "_build_trade_structure"
    /\ pc \in {"built", "measured"}
    /\ result.trade # None

\* The builder has returned a vertical spread.
SpreadBuilt == TradeBuilt /\ HasSpread(result.trade.strategy)

\* The metrics of the built Trade have been computed.
TradeMeasured ==
    op = "_build_trade_structure" /\ pc \in {"measured", "scored"}

\* C2: for every Trade the builder produces from any contract universe
\* (any strikes, expiries, positive bids and asks), calculate_trade_metrics
\* returns max_loss >= 0 and max_gain >= 0.
C2_MaxLossAndGainNonNegative ==
    TradeMeasured =>
        /\ result.metrics.max_loss >= 0
        /\ result.metrics.max_gain >= 0

\* The DTE-filtered contract list a vertical spread is built from.
SpreadContracts ==
    FilterByDte(ContractsOf(args.options_data, args.config.strategy_type),
                args.config.max_dte)

\* C6: in each vertical spread the contract selected by delta is the BUY leg
\* and the SELL leg is the contract minimizing |strike - target|, where
\* target = long_strike + width for call-debit and put-credit spreads and
\* long_strike - width for put-debit and call-credit spreads.
C6_DeltaSelectedLegIsBought ==
    SpreadBuilt =>
        LET shape == args.config.strategy_type
            long == ClosestDelta(SpreadContracts, args.config.delta_target)
            target ==
                IF shape \in {CALL_DEBIT_SPREAD, PUT_CREDIT_SPREAD}
                THEN long.strikePrice + args.config.spread_width
                ELSE long.strikePrice - args.config.spread_width
            short == ClosestStrike(SpreadContracts, target)
            legs == result.trade.legs
        IN  /\ Len(legs) = 2
            /\ \E i, j \in 1..2 :
                  /\ i # j
                  /\ legs[i] = Leg("BUY", OptionTypeOf(shape), long)
                  /\ legs[j] = Leg("SELL", OptionTypeOf(shape), short)

\* C7: every vertical spread the builder returns has its two legs at
\* different strikes, whatever the non-empty DTE-filtered contract list.
C7_SpreadLegsAtDifferentStrikes ==
    SpreadBuilt =>
        /\ Len(result.trade.legs) = 2
        /\ result.trade.legs[1].strike # result.trade.legs[2].strike

\* What a leg adds to the net cost: its premium times 100 shares, bought
\* positive, sold negative.
SignedPremium(leg) ==
    IF leg.action = "BUY" THEN leg.price * leg.quantity * 100
    ELSE 0 - leg.price * leg.quantity * 100

\* The legs of the debit spread long 100 at 2.00, short 105 at 0.80.
ExampleSpreadLegs ==
    << [action |-> "BUY", option_type |-> "CALL", strike |-> 100,
        quantity |-> 1, price |-> 400],
       [action |-> "SELL", option_type |-> "CALL", strike |-> 105,
        quantity |-> 1, price |-> 160] >>

\* C8: for a two-leg spread, width = |strike difference| x 100; with a net
\* debit, max_loss = net debit and max_gain = width - max_loss; with a net
\* credit, max_gain = net credit and max_loss = width - max_gain; in every
\* case max_loss + max_gain = width; long 100 at 2.00 and short 105 at 0.80
\* give net debit 120, width 500, max_loss 120, max_gain 380.
C8_SpreadMetrics ==
    (TradeMeasured /\ HasSpread(result.trade.strategy)) =>
        LET legs == result.trade.legs
            m == result.metrics
            width == Dollars(Abs(legs[1].strike - legs[2].strike) * 100)
            net == SignedPremium(legs[1]) + SignedPremium(legs[2])
        IN  /\ Len(legs) = 2
            /\ m.spread_width = width
            /\ net > 0 => /\ m.is_debit
                          /\ m.max_loss = net
                          /\ m.max_gain = width - m.max_loss
            /\ net < 0 => /\ ~m.is_debit
                          /\ m.max_gain = 0 - net
                          /\ m.max_loss = width - m.max_gain
            /\ m.max_loss + m.max_gain = width
            /\ legs = ExampleSpreadLegs =>
                   /\ m.net_cost = Dollars(120) /\ m.is_debit
                   /\ m.spread_width = Dollars(500)
                   /\ m.max_loss = Dollars(120)
                   /\ m.max_gain = Dollars(380)

\* C8 witness: the call debit spread long 100 at 2.00, short 105 at 0.80 was
\* built and measured: max_loss 120, max_gain 380.
C8_Witness ==
    /\ TradeMeasured
    /\ result.trade.strategy = CALL_DEBIT_SPREAD
    /\ result.trade.legs = ExampleSpreadLegs
    /\ result.metrics.max_loss = Dollars(120)
    /\ result.metrics.max_gain = Dollars(380)

(***************************************************************************)
(* RiskMetrics.calculate_position_size, called directly                    *)
(***************************************************************************)
\* Whole dollars; the sets hold zero and negative values, amounts that
\* divide evenly and amounts that do not.
AccountSizes == {0, 1000, 2500, 5000, 10000, 20000}

LossLimits == {0 - 100, 0, 50, 100, 200, 1000}

TradeLosses == {0 - 50, 0, 30, 50, 70, 120, 250}

InitSize ==
    /\ settings = DefaultSettings
    /\ pc = "call"
    /\ op = "calculate_position_size"
    /\ args \in [account_size : AccountSizes,
                 max_loss_per_trade : LossLimits,
                 trade_max_loss : TradeLosses]
    /\ result = None
    /\ RunIdle

\* RiskMetrics.calculate_position_size(account_size, max_loss_per_trade,
\*                                     trade_max_loss)
CallCalculatePositionSize ==
    /\ pc = "call"
    /\ op = "calculate_position_size"
    /\ result' = calculate_position_size(args.account_size,
                                         args.max_loss_per_trade,
                                         args.trade_max_loss)
    /\ pc' = "returned"
    /\ UNCHANGED <<op, args>>
    /\ UNCHANGED idleVars

NextSize == CallCalculatePositionSize

SpecSize == InitSize /\ [][NextSize]_vars

SizeReturned == op = "calculate_position_size" /\ pc = "returned"

\* C9: calculate_position_size returns 0 when trade_max_loss <= 0 and
\* otherwise max(1, min(floor(max_loss_per_trade / trade_max_loss),
\* floor(0.02 x account_size / trade_max_loss))); account 10000, limit 200,
\* trade loss 50 give 4; a result greater than 1, times trade_max_loss,
\* exceeds neither max_loss_per_trade nor 2% of the account.
C9_PositionSize ==
    SizeReturned =>
        LET a == args.account_size
            m == args.max_loss_per_trade
            t == args.trade_max_loss
        IN  /\ t <= 0 => result = 0
            /\ t > 0 => result = Max(1, Min(m \div t, (2 * a) \div (100 * t)))
            /\ (a = 10000 /\ m = 200 /\ t = 50) => result = 4
            /\ result > 1 => /\ result * t <= m
                             /\ result * t * 100 <= 2 * a

\* C9 witness: account 10000, max_loss_per_trade 200 and trade_max_loss 50
\* returned 4 contracts.
C9_Witness ==
    /\ SizeReturned
    /\ args = [account_size |-> 10000, max_loss_per_trade |-> 200,
               trade_max_loss |-> 50]
    /\ result = 4

(***************************************************************************)
(* TradeScorer.rank_trades, called directly                                *)
(***************************************************************************)
\* Trades of one scored list, at most.
MaxTrades == 3

\* Scores in tenths: 65.0, 70.0 and 75.0.
RankScores == {650, 700, 750}

\* The symbol of a scored trade is its position in the input list.
ScoredTrades(scores) ==
    [i \in 1..Len(scores) |-> [symbol |-> i, score |-> scores[i]]]

\* Minimum scores 60.0 and 70.0, output counts 0, 1, 2 and 5.
RankSettings ==
    { Settings(30, 60, 100, min_score, max_out) :
          min_score \in {600, 700}, max_out \in {0, 1, 2, 5} }

InitRank ==
    /\ settings \in RankSettings
    /\ pc = "call"
    /\ op = "rank_trades"
    /\ \E scores \in SeqsUpTo(RankScores, MaxTrades) :
          args = [scored_trades |-> ScoredTrades(scores)]
    /\ result = None
    /\ RunIdle

\* top_trades = scorer.rank_trades(scored_trades)
CallRankTrades ==
    /\ pc = "call"
    /\ op = "rank_trades"
    /\ result' = [top_trades |-> rank_trades(args.scored_trades, settings)]
    /\ pc' = "returned"
    /\ UNCHANGED <<op, args>>
    /\ UNCHANGED idleVars

NextRank == CallRankTrades

SpecRank == InitRank /\ [][NextRank]_vars

RankReturned == op = "rank_trades" /\ pc = "returned"

\* The positions of the input trades that meet the minimum score.
Qualifying ==
    {i \in 1..Len(args.scored_trades) :
        args.scored_trades[i].score >= settings.min_trade_score}

\* The place of input trade i in a stable descending order of the
\* qualifying trades.
RankPlace(i) ==
    1 + Cardinality({j \in Qualifying :
                        \/ args.scored_trades[j].score
                             > args.scored_trades[i].score
                        \/ /\ args.scored_trades[j].score
                                = args.scored_trades[i].score
                           /\ j < i})

\* C10: rank_trades returns exactly the trades with score >=
\* min_trade_score, in descending order of score with equal scores in input
\* order, cut to the first max_trades_output; so the output has at most
\* max_trades_output trades, none below the threshold, and no omitted
\* qualifying trade has a higher score than an included one.
C10_RankTrades ==
    RankReturned =>
        LET input == args.scored_trades
            out == result.top_trades
        IN  /\ Len(out) = Min(settings.max_trades_output,
                              Cardinality(Qualifying))
            /\ \A i \in Qualifying :
                  RankPlace(i) <= Len(out) => out[RankPlace(i)] = input[i]
            /\ Len(out) <= settings.max_trades_output
            /\ \A k \in 1..Len(out) :
                  out[k].score >= settings.min_trade_score
            /\ \A i \in Qualifying :
                  RankPlace(i) > Len(out) =>
                      \A k \in 1..Len(out) : input[i].score <= out[k].score

\* C10 witness: of three scored trades one was below the threshold and the
\* other two had equal scores; with max_trades_output 1 the earlier of the
\* two was returned and the later one, which qualifies, was cut.
C10_Witness ==
    /\ RankReturned
    /\ Len(args.scored_trades) = 3
    /\ Cardinality(Qualifying) = 2
    /\ settings.max_trades_output = 1
    /\ Len(result.top_trades) = 1
    /\ \E i, j \in Qualifying :
          /\ i < j
          /\ args.scored_trades[i].score = args.scored_trades[j].score
          /\ result.top_trades[1] = args.scored_trades[i]

(***************************************************************************)
(* Properties of the scorer                                                *)
(***************************************************************************)
\* score_trade has scored the built Trade.
TradeScored == op = "_build_trade_structure" /\ pc = "scored"

\* A fraction of a point lies in [0, 100].
InScoreRange(x) == RLeq(RInt(0), x) /\ RLeq(x, RInt(100))

\* C11: for every trade the pipeline can score, each of the five sub-scores
\* lies in [0, 100], and with the default weights the total score returned
\* by score_trade lies in [0, 100].
C11_ScoresWithinRange ==
    TradeScored =>
        /\ InScoreRange(result.components.probability)
        /\ InScoreRange(result.components.risk_reward)
        /\ InScoreRange(result.components.iv_edge)
        /\ InScoreRange(result.components.liquidity)
        /\ InScoreRange(result.components.trend)
        /\ settings = DefaultSettings =>
               (result.score >= 0 /\ result.score <= 1000)

(***************************************************************************)
(* Properties of the configuration                                         *)
(***************************************************************************)
\* No scoring weight is negative and the IV thresholds are in order.
ValidConfiguration(st) ==
    /\ st.weight_probability >= 0
    /\ st.weight_risk_reward >= 0
    /\ st.weight_iv_edge >= 0
    /\ st.weight_liquidity >= 0
    /\ st.weight_trend >= 0
    /\ st.low_iv_threshold < st.high_iv_threshold
    /\ st.high_iv_threshold < st.extreme_iv_threshold

\* C12: a configuration with a negative scoring weight or with inverted IV
\* thresholds is rejected when the settings are loaded: under such a
\* configuration TradingSystem.run never gets past its first step, so no
\* scan result, option universe or trade exists.
C12_InvalidConfigurationNeverScans ==
    ~ValidConfiguration(settings) =>
        /\ pc = "scan"
        /\ candidates = <<>>
        /\ steps = <<>>
        /\ all_trades = <<>>

(***************************************************************************)
(* greeks.py and probability.py                                            *)
(*                                                                         *)
(* S and K are whole dollars, T is counted in days (T = dte / 365, so      *)
(* T <= 0 is days <= 0), r and sigma are hundredths.  A result is an exact *)
(* fraction [num, den] where the code returns a terminal value, and a term *)
(* [fn, arg] naming the float expression otherwise; an operation that      *)
(* fails returns the exception.                                            *)
(***************************************************************************)
Term(fn, arg) == [fn |-> fn, arg |-> arg]

IsExact(v) == "num" \in DOMAIN v

\* norm.cdf(x); norm.cdf(0) is 0.5.
NormCdf(x) == IF x = Ratio(0, 1) THEN Ratio(1, 2) ELSE Term("norm.cdf", x)

\* -x
Neg(x) == IF IsExact(x) THEN Ratio(0 - x.num, x.den) ELSE Term("neg", x)

\* v - 1
MinusOne(v) ==
    IF IsExact(v) THEN Ratio(v.num - v.den, v.den) ELSE Term("minus_one", v)

\* GreeksCalculator.calculate_d1_d2
calculate_d1_d2(S, K, T, r, sigma) ==
    IF T <= 0 \/ sigma <= 0 THEN << Ratio(0, 1), Ratio(0, 1) >>
    ELSE LET inputs == [S |-> S, K |-> K, T |-> T, r |-> r, sigma |-> sigma]
         IN  << Term("d1", inputs), Term("d2", inputs) >>

\* GreeksCalculator.delta
delta(S, K, T, r, sigma, option_type) ==
    IF T <= 0
    THEN IF option_type = "call"
         THEN (IF S > K THEN Ratio(1, 1) ELSE Ratio(0, 1))
         ELSE (IF S < K THEN Ratio(0 - 1, 1) ELSE Ratio(0, 1))
    ELSE LET d1 == calculate_d1_d2(S, K, T, r, sigma)[1]
         IN  IF option_type = "call" THEN NormCdf(d1)
             ELSE MinusOne(NormCdf(d1))

\* ProbabilityCalculator.probability_itm
probability_itm(S, K, T, r, sigma, option_type) ==
    IF T <= 0
    THEN IF option_type = "call"
         THEN (IF S > K THEN Ratio(1, 1) ELSE Ratio(0, 1))
         ELSE (IF S < K THEN Ratio(1, 1) ELSE Ratio(0, 1))
    ELSE LET d2 == calculate_d1_d2(S, K, T, r, sigma)[2]
         IN  IF option_type = "call" THEN NormCdf(d2) ELSE NormCdf(Neg(d2))

\* ProbabilityCalculator.probability_touch: min(2 * abs(delta), 1.0)
probability_touch(S, K, T, r, sigma, option_type) ==
    LET d == delta(S, K, T, r, sigma, option_type)
    IN  IF IsExact(d)
        THEN (IF 2 * Abs(d.num) >= d.den THEN Ratio(1, 1)
              ELSE Ratio(2 * Abs(d.num), d.den))
        ELSE Term("min(2*abs,1)", d)

\* ProbabilityCalculator.expected_move: S * sigma * math.sqrt(T); math.sqrt
\* of a negative number raises ValueError.
expected_move(S, sigma, T) ==
    IF T < 0 THEN Raised("ValueError")
    ELSE IF T = 0 \/ sigma = 0 THEN Ratio(0, 1)
    ELSE Term("S*sigma*sqrt(T)", [S |-> S, sigma |-> sigma, T |-> T])

\* ProbabilityCalculator.monte_carlo_simulation; draw is the share of the
\* random paths that end with a positive payoff, in percent.
monte_carlo_simulation(S, K, T, r, sigma, option_type, draw) ==
    IF T <= 0
    THEN LET payoff == IF option_type = "call" THEN Max(S - K, 0)
                       ELSE Max(K - S, 0)
         IN  [probability_profit |->
                  IF (S > K /\ option_type = "call")
                     \/ (S < K /\ option_type = "put")
                  THEN Ratio(1, 1) ELSE Ratio(0, 1),
              avg_profit |-> Ratio(payoff, 1),
              max_profit |-> Ratio(payoff, 1),
              max_loss |-> Ratio(0, 1)]
    ELSE LET inputs == [S |-> S, K |-> K, T |-> T, r |-> r, sigma |-> sigma]
         IN  [probability_profit |-> Ratio(draw, 100),
              avg_profit |-> Term("mean(discounted_payoffs)", inputs),
              max_profit |-> Term("max(discounted_payoffs)", inputs),
              expected_value |-> Term("mean(discounted_payoffs)", inputs)]

\* ProbabilityCalculator.calculate_probabilities with run_monte_carlo=True:
\* the three closed-form values are computed first, in this order.
calculate_probabilities(S, K, T, r, sigma, option_type, draw) ==
    LET move == expected_move(S, sigma, T)
    IN  IF IsRaised(move) THEN move
        ELSE [probability_itm |->
                  probability_itm(S, K, T, r, sigma, option_type),
              probability_touch |->
                  probability_touch(S, K, T, r, sigma, option_type),
              expected_move |-> move,
              monte_carlo |->
                  monte_carlo_simulation(S, K, T, r, sigma, option_type,
                                         draw)]

\* ProbabilityCalculator.spread_probability_profit: with T > 0 the distance
\* to the break-even is divided by std_dev = S * sigma * math.sqrt(T), and a
\* float division by 0.0 raises ZeroDivisionError.
spread_probability_profit(S, K_long, K_short, T, r, sigma, debit_paid, option_type) ==
    LET breakeven == IF option_type = "call" THEN K_long + debit_paid
                     ELSE K_long - debit_paid
    IN  IF T <= 0
        THEN IF option_type = "call"
             THEN (IF S > breakeven THEN Ratio(1, 1) ELSE Ratio(0, 1))
             ELSE (IF S < breakeven THEN Ratio(1, 1) ELSE Ratio(0, 1))
        ELSE IF sigma = 0 THEN Raised("ZeroDivisionError")
        ELSE LET z == Term("z", [breakeven |-> breakeven, S |-> S, T |-> T,
                                 r |-> r, sigma |-> sigma])
             IN  IF option_type = "call" THEN Term("1-norm.cdf", z)
                 ELSE NormCdf(z)


(***************************************************************************)
(* Direct calls of the probability engine: each operation is called once   *)
(* with inputs that cover the regular case and the degenerate ones.        *)
(***************************************************************************)
EngineOps ==
    { "calculate_d1_d2", "delta", "probability_itm", "probability_touch",
      "expected_move", "monte_carlo_simulation", "calculate_probabilities",
      "spread_probability_profit" }

\* S, K in dollars, T in days, r and sigma in hundredths.
EngineArgs ==
    [S : {95, 100, 105}, K : {100}, T : {0 - 1, 0, 1, 7}, r : {5},
     sigma : {0 - 10, 0, 30}, option_type : {"call", "put"}]

InitEngine ==
    /\ RunIdle
    /\ settings = DefaultSettings
    /\ pc = "call"
    /\ op \in EngineOps
    /\ args \in EngineArgs
    /\ result = None

EngineReturn(name, value) ==
    /\ pc = "call"
    /\ op = name
    /\ result' = value
    /\ pc' = "returned"
    /\ UNCHANGED <<op, args>>
    /\ UNCHANGED idleVars

CallCalculateD1D2 ==
    LET d == calculate_d1_d2(args.S, args.K, args.T, args.r, args.sigma)
    IN  EngineReturn("calculate_d1_d2", [d1 |-> d[1], d2 |-> d[2]])

CallDelta ==
    EngineReturn("delta", delta(args.S, args.K, args.T, args.r, args.sigma,
                                args.option_type))

CallProbabilityItm ==
    EngineReturn("probability_itm",
                 probability_itm(args.S, args.K, args.T, args.r, args.sigma,
                                 args.option_type))

CallProbabilityTouch ==
    EngineReturn("probability_touch",
                 probability_touch(args.S, args.K, args.T, args.r, args.sigma,
                                   args.option_type))

CallExpectedMove ==
    EngineReturn("expected_move", expected_move(args.S, args.sigma, args.T))

CallMonteCarloSimulation ==
    \E draw \in {0, 45, 100} :
        EngineReturn("monte_carlo_simulation",
                     monte_carlo_simulation(args.S, args.K, args.T, args.r,
                                            args.sigma, args.option_type, draw))

CallCalculateProbabilities ==
    \E draw \in {0, 45, 100} :
        EngineReturn("calculate_probabilities",
                     calculate_probabilities(args.S, args.K, args.T, args.r,
                                             args.sigma, args.option_type,
                                             draw))

CallSpreadProbabilityProfit ==
    \E spread \in {[width |-> 5, debit_paid |-> 2]} :
        EngineReturn("spread_probability_profit",
                     spread_probability_profit(args.S, args.K,
                                               args.K + spread.width, args.T,
                                               args.r, args.sigma,
                                               spread.debit_paid,
                                               args.option_type))

NextEngine ==
    \/ CallCalculateD1D2
    \/ CallDelta
    \/ CallProbabilityItm
    \/ CallProbabilityTouch
    \/ CallExpectedMove
    \/ CallMonteCarloSimulation
    \/ CallCalculateProbabilities
    \/ CallSpreadProbabilityProfit

SpecEngine == InitEngine /\ [][NextEngine]_vars

EngineReturned == op \in EngineOps /\ pc = "returned"

Degenerate == args.T <= 0 \/ args.sigma <= 0

\* C13: no operation of the probability engine raises for a degenerate
\* input (T <= 0 or sigma <= 0, with S > 0 and K > 0): each returns a value.
C13_DegenerateInputsNeverRaise ==
    (EngineReturned /\ Degenerate) => ~IsRaised(result)

\* C17: for S > 0, K > 0, T >= 0 and sigma >= 0, the expiry branch and the
\* at-the-money case included, the delta of a put is the delta of the call
\* with the same inputs minus 1.
C17_PutDeltaIsCallDeltaMinusOne ==
    (pc = "returned" /\ op = "delta" /\ args.T >= 0 /\ args.sigma >= 0) =>
        LET other == IF args.option_type = "call" THEN "put" ELSE "call"
            twin == delta(args.S, args.K, args.T, args.r, args.sigma, other)
            call == IF args.option_type = "call" THEN result ELSE twin
            put == IF args.option_type = "put" THEN result ELSE twin
        IN  put = MinusOne(call)


(***************************************************************************)
(* Properties of calculate_trade_metrics                                   *)
(***************************************************************************)
\* The premiums of the legs with the given action, times 100 shares.
RECURSIVE PremiumSum(_, _)
PremiumSum(legs, action) ==
    IF legs = <<>> THEN 0
    ELSE (IF Head(legs).action = action
          THEN Head(legs).price * Head(legs).quantity * 100 ELSE 0)
         + PremiumSum(Tail(legs), action)

\* C14 as stated: the net_cost reported by calculate_trade_metrics is signed,
\* positive when the legs net to a debit (BUY premiums exceed SELL premiums)
\* and negative when they net to a credit.
C14_NetCostIsSigned ==
    TradeMeasured =>
        LET buy == PremiumSum(result.trade.legs, "BUY")
            sell == PremiumSum(result.trade.legs, "SELL")
        IN  /\ buy > sell => result.metrics.net_cost > 0
            /\ sell > buy => result.metrics.net_cost < 0

\* C14, amended: the net_cost reported by calculate_trade_metrics is
\* unsigned, the absolute value of BUY premiums minus SELL premiums, positive
\* for a debit and for a credit alike; the sign is reported by is_debit, true
\* exactly when BUY premiums exceed SELL premiums.
C14_NetCostIsMagnitude ==
    TradeMeasured =>
        LET buy == PremiumSum(result.trade.legs, "BUY")
            sell == PremiumSum(result.trade.legs, "SELL")
        IN  /\ result.metrics.net_cost = Abs(buy - sell)
            /\ result.metrics.is_debit = (buy > sell)

\* C14 witness: a trade whose legs net to a credit has been measured, and
\* its net_cost is reported positive with is_debit false.
C14_Witness ==
    /\ TradeMeasured
    /\ PremiumSum(result.trade.legs, "SELL")
           > PremiumSum(result.trade.legs, "BUY")
    /\ result.metrics.net_cost > 0
    /\ ~result.metrics.is_debit

\* C16: for every strategy shape, risk_reward_ratio = max_gain / max_loss
\* when max_loss > 0, and risk_reward_ratio = 0 when max_loss = 0 (nothing is
\* divided by zero).
C16_RiskRewardRatio ==
    TradeMeasured =>
        LET m == result.metrics
        IN  /\ m.risk_reward_ratio.den # 0
            /\ m.max_loss > 0 =>
                   RNorm(m.risk_reward_ratio.num, m.risk_reward_ratio.den)
                       = RNorm(m.max_gain, m.max_loss)
            /\ m.max_loss = 0 => m.risk_reward_ratio.num = 0

\* C16 witness: a trade with max_loss 0 has been measured (both legs of a
\* spread on the same contract) and its ratio is 0.
C16_Witness ==
    /\ TradeMeasured
    /\ result.metrics.max_loss = 0
    /\ result.metrics.risk_reward_ratio.num = 0


(***************************************************************************)
(* RiskMetrics.calculate_trade_metrics, called directly on iron condors    *)
(***************************************************************************)
\* Four legs in the builder's order: short call 105, long call 105 or 110,
\* short put 95, long put 90 or 85, each at 0.25, 1.00 or 2.00.
CondorLegs ==
    { << [action |-> "SELL", option_type |-> "CALL", strike |-> 105,
          quantity |-> 1, price |-> p[1]],
         [action |-> "BUY", option_type |-> "CALL", strike |-> long_call,
          quantity |-> 1, price |-> p[2]],
         [action |-> "SELL", option_type |-> "PUT", strike |-> 95,
          quantity |-> 1, price |-> p[3]],
         [action |-> "BUY", option_type |-> "PUT", strike |-> long_put,
          quantity |-> 1, price |-> p[4]] >> :
        long_call \in {105, 110}, long_put \in {85, 90},
        p \in [1..4 -> {50, 200, 400}] }

InitMetrics ==
    /\ RunIdle
    /\ settings = DefaultSettings
    /\ pc = "call"
    /\ op = "calculate_trade_metrics"
    /\ \E legs \in CondorLegs :
          args = [trade |-> Trade(1, IRON_CONDOR, CHOPPY, "neutral", 100, 1,
                                  legs)]
    /\ result = None

\* risk_metrics = RiskMetrics.calculate_trade_metrics(trade)
CallTradeMetrics ==
    /\ pc = "call"
    /\ op = "calculate_trade_metrics"
    /\ result' = [trade |-> args.trade,
                  metrics |-> calculate_trade_metrics(args.trade)]
    /\ pc' = "returned"
    /\ UNCHANGED <<op, args>>
    /\ UNCHANGED idleVars

NextMetrics == CallTradeMetrics

SpecMetrics == InitMetrics /\ [][NextMetrics]_vars

MetricsReturned == op = "calculate_trade_metrics" /\ pc = "returned"

\* The spec's condor: each side sells at 1.00 and buys at 0.25, five dollars
\* apart.
ExampleCondor(legs) ==
    /\ legs[1].price = 200 /\ legs[2].price = 50
    /\ legs[3].price = 200 /\ legs[4].price = 50
    /\ legs[2].strike = 110 /\ legs[4].strike = 90

\* C15: for a four-leg iron condor, net credit = (sum of SELL prices - sum
\* of BUY prices) x 100, max_gain = net credit and max_loss =
\* max(call_width, put_width) - net credit, each width being the strike
\* difference of the two legs of one class x 100; call_width 500, put_width
\* 500 and net credit 150 give max_gain 150 and max_loss 350.
C15_IronCondorMetrics ==
    MetricsReturned =>
        LET legs == result.trade.legs
            m == result.metrics
            credit == PremiumSum(legs, "SELL") - PremiumSum(legs, "BUY")
            call_width == Dollars(Abs(legs[1].strike - legs[2].strike) * 100)
            put_width == Dollars(Abs(legs[3].strike - legs[4].strike) * 100)
        IN  /\ m.net_credit = credit
            /\ m.max_gain = credit
            /\ m.max_loss = Max(call_width, put_width) - credit
            /\ ExampleCondor(legs) =>
                   /\ call_width = Dollars(500) /\ put_width = Dollars(500)
                   /\ credit = Dollars(150)
                   /\ m.max_gain = Dollars(150)
                   /\ m.max_loss = Dollars(350)

\* C15 witness: the spec's condor has been measured: max_gain 150, max_loss
\* 350.
C15_Witness ==
    /\ MetricsReturned
    /\ ExampleCondor(result.trade.legs)
    /\ result.metrics.max_gain = Dollars(150)
    /\ result.metrics.max_loss = Dollars(350)


(***************************************************************************)
(* TradeScorer.score_trade, called directly                                *)
(***************************************************************************)
\* Non-negative weights, in hundredths: the defaults, probability only,
\* risk/reward only, all zero, and weights that do not sum to 1.
ScoreWeights ==
    { [weight_probability |-> w[1], weight_risk_reward |-> w[2],
       weight_iv_edge |-> w[3], weight_liquidity |-> w[4],
       weight_trend |-> w[5]] :
        w \in { << 30, 25, 20, 15, 10 >>, << 100, 0, 0, 0, 0 >>,
                << 0, 100, 0, 0, 0 >>, << 0, 0, 0, 0, 0 >>,
                << 7, 33, 20, 15, 10 >> } }

\* Probabilities of profit, in percent.
ScoreProfits == {0, 45, 46, 72, 100}

\* Risk/reward ratios on both sides of 0 and of the cap at 3.
ScoreRatios ==
    { Ratio(0 - 1, 2), Ratio(0, 1), Ratio(1, 2), Ratio(299, 100),
      Ratio(3, 1), Ratio(5, 1) }

\* The probability metrics with another probability of profit.
WithProfit(pm, p) == [pm EXCEPT !.monte_carlo.probability_profit = p]

\* The risk metrics with another risk/reward ratio.
WithRatio(rm, rr) == [rm EXCEPT !.risk_reward_ratio = rr]

\* A long call, a debit spread, a credit spread and an iron condor built
\* over one chain, each with any probability of profit and any ratio.
InitScore ==
    /\ RunIdle
    /\ settings \in { w @@ DefaultSettings : w \in ScoreWeights }
    /\ pc = "call"
    /\ op = "score_trade"
    /\ \E cond \in {STRONG_BULLISH, BULLISH_BREAKOUT, HIGH_IV_RANGE, CHOPPY},
          p \in ScoreProfits, rr \in ScoreRatios :
          LET od == Universe(<< CallAt(95, 1, 15), CallAt(100, 1, 15),
                                CallAt(105, 1, 15) >>,
                             << PutAt(95, 1, 15), PutAt(100, 1, 15),
                                PutAt(105, 1, 15) >>)
              trd == _build_trade_structure([symbol |-> 1], od, cond,
                                            get_strategy_config(cond))
          IN  args = [trade |-> trd,
                      probability_metrics |->
                          [probability_itm |-> 40,
                           monte_carlo |-> [probability_profit |-> p]],
                      risk_metrics |->
                          WithRatio(calculate_trade_metrics(trd), rr),
                      options_data |-> od]
    /\ result = None

\* score = self.scorer.score_trade(trade, prob_metrics, risk_metrics,
\*                                 options_data)
CallScoreTradeDirect ==
    /\ pc = "call"
    /\ op = "score_trade"
    /\ result' = [score |-> score_trade(args.trade, args.probability_metrics,
                                        args.risk_metrics, args.options_data,
                                        settings)]
    /\ pc' = "returned"
    /\ UNCHANGED <<op, args>>
    /\ UNCHANGED idleVars

NextScore == CallScoreTradeDirect

SpecScore == InitScore /\ [][NextScore]_vars

ScoreReturned == op = "score_trade" /\ pc = "returned"

\* C18: for non-negative weights the total score of score_trade does not
\* decrease when the probability of profit is raised, nor when the
\* risk/reward ratio is raised, the trade, the regime and the liquidity data
\* being the same.
C18_ScoreIsMonotone ==
    ScoreReturned =>
        /\ \A p \in ScoreProfits :
               p >= args.probability_metrics.monte_carlo.probability_profit =>
                   score_trade(args.trade,
                               WithProfit(args.probability_metrics, p),
                               args.risk_metrics, args.options_data, settings)
                       >= result.score
        /\ \A rr \in ScoreRatios :
               RLeq(args.risk_metrics.risk_reward_ratio, rr) =>
                   score_trade(args.trade, args.probability_metrics,
                               WithRatio(args.risk_metrics, rr),
                               args.options_data, settings)
                       >= result.score

\* C18 witness: a trade has been scored under the default weights with a
\* probability of profit of 45% and a ratio of 1/2, and a higher probability
\* and a higher ratio each give a strictly higher score.
C18_Witness ==
    /\ ScoreReturned
    /\ settings = DefaultSettings
    /\ args.probability_metrics.monte_carlo.probability_profit = 45
    /\ args.risk_metrics.risk_reward_ratio = Ratio(1, 2)
    /\ score_trade(args.trade, WithProfit(args.probability_metrics, 72),
                   args.risk_metrics, args.options_data, settings)
           > result.score
    /\ score_trade(args.trade, args.probability_metrics,
                   WithRatio(args.risk_metrics, Ratio(3, 1)),
                   args.options_data, settings) > result.score


(***************************************************************************)
(* Order of the steps of TradingSystem.run                                 *)
(***************************************************************************)
\* The calls made so far for the current candidate are the first calls of
\* order.
StepsFollow(order) ==
    /\ Len(steps) <= Len(order)
    /\ \A i \in 1..Len(steps) : steps[i] = order[i]

\* select_strategy classifies, then builds from the template of the regime
\* it found.
ClassifiedThenBuilt ==
    Len(steps) >= 2 =>
        /\ condition \in MarketCondition
        /\ (trade # None /\ ~IsRaised(trade)) => trade.condition = condition

\* Both metric sets held are those of the current trade.
MetricsOfTrade ==
    /\ prob_metrics = EmptyDict \/ prob_metrics \in ProbPool
    /\ prob_metrics = EmptyDict <=> (trade.legs = <<>> \/ trade.dte <= 0)
    /\ LET rm == calculate_trade_metrics(trade)
       IN  \A k \in DOMAIN rm : risk_metrics[k] = rm[k]

\* Every candidate of the scan has been scored or skipped.
AllCandidatesSettled ==
    /\ Len(outcome) = Len(candidates)
    /\ \A i \in 1..Len(outcome) : outcome[i] \in {"scored", "skipped"}

InitVerify ==
    /\ RunIdle
    /\ settings = DefaultSettings
    /\ pc = "call"
    /\ op = "test_risk_metrics"
    /\ args \in [account_size : AccountSizes,
                 max_loss_per_trade : LossLimits,
                 trade_max_loss : TradeLosses,
                 current_portfolio_risk : {1, 6},
                 max_portfolio_risk : {5}]
            \cup [account_size : AccountSizes,
                  max_loss_per_trade : LossLimits,
                  trade_max_loss : TradeLosses]
    /\ result = None

\* size = RiskMetrics.calculate_position_size(account_size=...,
\* max_loss_per_trade=..., trade_max_loss=..., current_portfolio_risk=...,
\* max_portfolio_risk=...): a keyword that is not a parameter of the function
\* raises TypeError before its body runs.
CallTestRiskMetrics ==
    /\ pc = "call"
    /\ op = "test_risk_metrics"
    /\ result' =
           IF DOMAIN args \subseteq {"account_size", "max_loss_per_trade",
                                     "trade_max_loss"}
           THEN [size |-> calculate_position_size(args.account_size,
                                                  args.max_loss_per_trade,
                                                  args.trade_max_loss)]
           ELSE Raised("TypeError")
    /\ pc' = "returned"
    /\ UNCHANGED <<op, args>>
    /\ UNCHANGED idleVars

NextVerify == CallTestRiskMetrics

SpecVerify == InitVerify /\ [][NextVerify]_vars

\* C20: calculate_position_size takes the current and the maximum portfolio
\* risk into account: it returns 0 contracts when current_portfolio_risk
\* exceeds max_portfolio_risk (0.06 against 0.05) and a positive size when it
\* is below the limit (0.01 against 0.05), for account 10000,
\* max_loss_per_trade 200, trade_max_loss 50.
C20_PortfolioRiskLimitsSize ==
    (/\ op = "test_risk_metrics" /\ pc = "returned"
     /\ "current_portfolio_risk" \in DOMAIN args
     /\ args.account_size = 10000
     /\ args.max_loss_per_trade = 200
     /\ args.trade_max_loss = 50) =>
        /\ ~IsRaised(result)
        /\ args.current_portfolio_risk > args.max_portfolio_risk =>
               result.size = 0
        /\ args.current_portfolio_risk < args.max_portfolio_risk =>
               result.size > 0


(***************************************************************************)
(* Properties of the builder's contract selection                          *)
(***************************************************************************)
\* The builder has returned for a long call, a long put or a vertical
\* spread.
SingleClassBuilt ==
    /\ op = "_build_trade_structure"
    /\ pc = "built"
    /\ args.config.strategy_type
           \in {LONG_CALL, LONG_PUT, CALL_DEBIT_SPREAD, PUT_DEBIT_SPREAD,
                CALL_CREDIT_SPREAD, PUT_CREDIT_SPREAD}

\* The supplied list of the shape's class.
ClassList ==
    IF args.config.strategy_type
           \in {LONG_CALL, CALL_DEBIT_SPREAD, CALL_CREDIT_SPREAD}
    THEN args.options_data.calls ELSE args.options_data.puts

\* The positions of ClassList the builder may select: dte <= max_dte.
Eligible == { i \in 1..Len(ClassList) : ClassList[i].dte <= args.config.max_dte }

\* | abs(delta) - delta_target | of the contract at position i.
DeltaGap(i) == Abs(Abs(ClassList[i].delta) - args.config.delta_target)

\* Position k is eligible, no eligible contract is closer to the delta
\* target, and every eligible contract before it is farther.
FirstClosest(k) ==
    /\ k \in Eligible
    /\ \A j \in Eligible : DeltaGap(k) <= DeltaGap(j)
    /\ \A j \in Eligible : j < k => DeltaGap(j) > DeltaGap(k)

\* The first leg of the built trade is the contract at position k.
SelectedAt(k) ==
    LET leg == result.trade.legs[1]
    IN  /\ leg.strike = ClassList[k].strikePrice
        /\ leg.price = ClassList[k].bid + ClassList[k].ask
        /\ leg.option_type = ClassList[k].option_type
        /\ result.trade.dte = ClassList[k].dte

\* C21: for long calls, long puts and vertical spreads the builder considers
\* only the contracts of the shape's class with dte <= max_dte and selects
\* the one minimizing | abs(delta) - delta_target |, the first in the
\* supplied order among those that tie; the same universe in the same order
\* gives the same Trade.
C21_FirstClosestDeltaSelected ==
    SingleClassBuilt =>
        /\ Eligible = {} => result.trade = None
        /\ Eligible # {} =>
               /\ result.trade # None
               /\ \E k \in Eligible : FirstClosest(k) /\ SelectedAt(k)
               /\ result.trade.legs[1].option_type
                      = (IF ClassList = args.options_data.calls
                         THEN "CALL" ELSE "PUT")

\* C21 witness: two eligible contracts at different strikes tie for the
\* smallest delta gap and the trade was built on the first of the two.
C21_Witness ==
    /\ SingleClassBuilt
    /\ result.trade # None
    /\ \E k \in Eligible, j \in Eligible :
          /\ k < j
          /\ FirstClosest(k) /\ SelectedAt(k)
          /\ DeltaGap(j) = DeltaGap(k)
          /\ ClassList[j].strikePrice # ClassList[k].strikePrice


(***************************************************************************)
(* Debit and credit spreads                                                *)
(***************************************************************************)
\* Over the contracts of one list the mid price is a function of the strike
\* that strictly decreases (dir = -1) or strictly increases (dir = 1).
StrictlyMonotone(contracts, dir) ==
    \A i, j \in 1..Len(contracts) :
        /\ contracts[i].strikePrice = contracts[j].strikePrice =>
               MidPrice(contracts[i]) = MidPrice(contracts[j])
        /\ contracts[i].strikePrice < contracts[j].strikePrice =>
               dir * (MidPrice(contracts[j]) - MidPrice(contracts[i])) > 0

\* C22: for every vertical spread built from a universe in which call mid
\* prices strictly decrease with the strike and put mid prices strictly
\* increase with it, the classification the risk metrics derive from the
\* legs agrees with the family of the shape: debit spreads are net debits
\* (is_debit), credit spreads are net credits (not is_debit).
C22_FamilyAgreesWithNetCost ==
    (/\ pc = "score"
     /\ HasSpread(trade.strategy)
     /\ StrictlyMonotone(options_data.calls, 0 - 1)
     /\ StrictlyMonotone(options_data.puts, 1)) =>
        LET net == PremiumSum(trade.legs, "BUY") - PremiumSum(trade.legs, "SELL")
        IN  IF trade.strategy \in {CALL_DEBIT_SPREAD, PUT_DEBIT_SPREAD}
            THEN risk_metrics.is_debit /\ net > 0
            ELSE ~risk_metrics.is_debit /\ net < 0


(***************************************************************************)
(* StrategySelector._build_iron_condor, called directly                    *)
(***************************************************************************)
\* Calls at three strikes with a delta of 0.20 or 0.50, one of them past the
\* template's max_dte.
CondorCalls ==
    { Contract("CALL", strike, 1, d, 78, 82, 35) :
          strike \in {100, 105, 110}, d \in {20, 50} }
    \cup { Contract("CALL", 105, 9, 20, 195, 205, 35) }

\* Put lists: none, delta -0.20 first, delta -0.50 first, none within
\* max_dte.
CondorPuts ==
    { <<>>,
      << Contract("PUT", 95, 1, 0 - 20, 68, 72, 35),
         Contract("PUT", 90, 1, 0 - 50, 30, 34, 35) >>,
      << Contract("PUT", 100, 1, 0 - 50, 185, 195, 35),
         Contract("PUT", 90, 1, 0 - 22, 30, 34, 35),
         Contract("PUT", 95, 1, 0 - 18, 68, 72, 35) >>,
      << Contract("PUT", 95, 9, 0 - 20, 68, 72, 35) >> }

\* The catalog's template and templates with another delta target or width.
InitCondor ==
    /\ RunIdle
    /\ settings = DefaultSettings
    /\ pc = "call"
    /\ op = "_build_iron_condor"
    /\ \E calls \in SeqsUpTo(CondorCalls, MaxContracts),
          puts \in CondorPuts, dt \in {20, 50}, width \in {5, 10} :
          args = [candidate |-> [symbol |-> 1],
                  options_data |-> Universe(calls, puts),
                  config |-> StrategyConfig(IRON_CONDOR, dt, width, 2)]
    /\ result = None

\* return self._build_iron_condor(candidate, options_data, config)
CallBuildIronCondor ==
    /\ pc = "call"
    /\ op = "_build_iron_condor"
    /\ result' = [trade |-> _build_iron_condor(args.candidate,
                                               args.options_data,
                                               args.config)]
    /\ pc' = "returned"
    /\ UNCHANGED <<op, args>>
    /\ UNCHANGED idleVars

NextCondor == CallBuildIronCondor

SpecCondor == InitCondor /\ [][NextCondor]_vars

CondorReturned == op = "_build_iron_condor" /\ pc = "returned"

\* The positions of a list with dte <= the template's max_dte.
WithinDte(contracts) ==
    { i \in 1..Len(contracts) : contracts[i].dte <= args.config.max_dte }

\* Position k of the list is within max_dte and no contract within max_dte
\* has | abs(delta) - 0.20 | smaller.
ShortLegAt(contracts, k) ==
    /\ k \in WithinDte(contracts)
    /\ \A j \in WithinDte(contracts) :
           Abs(Abs(contracts[k].delta) - 20)
               <= Abs(Abs(contracts[j].delta) - 20)

\* Position k of the list is within max_dte and no contract within max_dte
\* has | strike - target | smaller.
LongLegAt(contracts, k, target) ==
    /\ k \in WithinDte(contracts)
    /\ \A j \in WithinDte(contracts) :
           Abs(contracts[k].strikePrice - target)
               <= Abs(contracts[j].strikePrice - target)

\* The leg the claim describes for a contract.
CondorLeg(action, option_type, c) ==
    [action |-> action, option_type |-> option_type, strike |-> c.strikePrice,
     quantity |-> 1, price |-> c.bid + c.ask]

\* C23: for an iron condor the builder takes as short call and short put the
\* contracts (dte <= max_dte) minimizing | abs(delta) - 0.20 |, whatever the
\* template's delta target, as long call the call minimizing | strike -
\* (short call strike + width) | and as long put the put minimizing | strike
\* - (short put strike - width) |, and emits exactly the four legs SELL CALL,
\* BUY CALL, SELL PUT, BUY PUT, each with quantity 1 and the bid/ask midpoint
\* of its contract as price.
C23_IronCondorLegs ==
    (CondorReturned /\ result.trade # None) =>
        LET calls == args.options_data.calls
            puts == args.options_data.puts
            width == args.config.spread_width
        IN  \E sc, lc \in WithinDte(calls), sp, lp \in WithinDte(puts) :
                /\ ShortLegAt(calls, sc)
                /\ ShortLegAt(puts, sp)
                /\ LongLegAt(calls, lc, calls[sc].strikePrice + width)
                /\ LongLegAt(puts, lp, puts[sp].strikePrice - width)
                /\ result.trade.legs
                       = << CondorLeg("SELL", "CALL", calls[sc]),
                            CondorLeg("BUY", "CALL", calls[lc]),
                            CondorLeg("SELL", "PUT", puts[sp]),
                            CondorLeg("BUY", "PUT", puts[lp]) >>

\* C23 witness: the template's delta target is 0.50, a call with delta 0.50
\* stands before a call with delta 0.20 at another strike, and the condor
\* sells the call with delta 0.20.
C23_Witness ==
    /\ CondorReturned
    /\ result.trade # None
    /\ args.config.delta_target = 50
    /\ Len(args.options_data.calls) = 2
    /\ args.options_data.calls[1].delta = 50
    /\ args.options_data.calls[2].delta = 20
    /\ args.options_data.calls[1].strikePrice
           # args.options_data.calls[2].strikePrice
    /\ result.trade.legs[1].strike = args.options_data.calls[2].strikePrice
    /\ Len(result.trade.legs) = 4


(***************************************************************************)
(* Break-even prices                                                       *)
(***************************************************************************)
\* C24: with premium = |net cost| / 100, breakeven_points is [strike +
\* premium] for a single call and [strike - premium] for a single put; for a
\* vertical spread it is one price, low strike + premium for a call spread
\* at a net debit and a put spread at a net credit, high strike - premium
\* for a call spread at a net credit and a put spread at a net debit; for an
\* iron condor it is [short put strike - premium, short call strike +
\* premium]; the break-even of a vertical spread whose max_loss and max_gain
\* are both non-negative lies between the two strikes.  Prices in
\* half-cents.
C24_BreakevenPoints ==
    TradeMeasured =>
        LET legs == result.trade.legs
            m == result.metrics
            be == m.breakeven_points
            net == PremiumSum(legs, "BUY") - PremiumSum(legs, "SELL")
            premium == Abs(net) \div 100
            call == HasCall(result.trade.strategy)
        IN  /\ Abs(net) = premium * 100
            /\ Len(legs) = 1 =>
                   be = << IF legs[1].option_type = "CALL"
                           THEN Dollars(legs[1].strike) + premium
                           ELSE Dollars(legs[1].strike) - premium >>
            /\ HasSpread(result.trade.strategy) =>
                   LET low == Dollars(Min(legs[1].strike, legs[2].strike))
                       high == Dollars(Max(legs[1].strike, legs[2].strike))
                   IN  /\ Len(be) = 1
                       /\ (call /\ net > 0) \/ (~call /\ net < 0) =>
                              be[1] = low + premium
                       /\ (call /\ net < 0) \/ (~call /\ net > 0) =>
                              be[1] = high - premium
                       /\ net = 0 => be[1] \in {low, high}
                       /\ (m.max_loss >= 0 /\ m.max_gain >= 0) =>
                              (low <= be[1] /\ be[1] <= high)
            /\ HasIronCondor(result.trade.strategy) =>
                   be = << Dollars(legs[3].strike) - premium,
                           Dollars(legs[1].strike) + premium >>

\* C24 witness: a call spread over two strikes that nets a credit no larger
\* than its width has been measured; its break-even is the high strike
\* minus the premium, strictly between the strikes.
C24_Witness ==
    /\ TradeMeasured
    /\ HasSpread(result.trade.strategy)
    /\ HasCall(result.trade.strategy)
    /\ ~result.metrics.is_debit
    /\ result.metrics.max_loss >= 0
    /\ result.metrics.net_cost > 0
    /\ LET legs == result.trade.legs
           be == result.metrics.breakeven_points[1]
       IN  /\ be = Dollars(Max(legs[1].strike, legs[2].strike))
                      - result.metrics.net_cost \div 100
           /\ be > Dollars(Min(legs[1].strike, legs[2].strike))
           /\ be < Dollars(Max(legs[1].strike, legs[2].strike))


(***************************************************************************)
(* StrategySelector._estimate_iv_percentile, called directly               *)
(***************************************************************************)
\* Calls with a delta of 0.30, 0.50 or 0.70 and an implied volatility on
\* both sides of every breakpoint; 0.30 and 0.70 are equally far from 0.5.
IvCalls ==
    { Contract("CALL", 100, 1, d, 195, 205, v) :
          d \in {30, 50, 70}, v \in {0, 19, 20, 29, 30, 39, 40, 59, 60, 150} }

InitIv ==
    /\ RunIdle
    /\ settings = DefaultSettings
    /\ pc = "call"
    /\ op = "_estimate_iv_percentile"
    /\ \E calls \in SeqsUpTo(IvCalls, MaxContracts) :
          args = [options_data |-> Universe(calls, <<>>)]
    /\ result = None

\* iv_percentile = self._estimate_iv_percentile(options_data)
CallEstimateIvPercentile ==
    /\ pc = "call"
    /\ op = "_estimate_iv_percentile"
    /\ result' = [iv_percentile |-> _estimate_iv_percentile(args.options_data)]
    /\ pc' = "returned"
    /\ UNCHANGED <<op, args>>
    /\ UNCHANGED idleVars

NextIv == CallEstimateIvPercentile

SpecIv == InitIv /\ [][NextIv]_vars

IvReturned == op = "_estimate_iv_percentile" /\ pc = "returned"

\* The bucket of an implied volatility in percent.
IvBucket(iv) ==
    CASE iv < 20 -> 20
      [] iv >= 20 /\ iv < 30 -> 35
      [] iv >= 30 /\ iv < 40 -> 50
      [] iv >= 40 /\ iv < 60 -> 70
      [] iv >= 60 -> 85

C26_NewsSpikeUnreachableByDefault ==
    (SelectReturned /\ settings = DefaultSettings) =>
        /\ _estimate_iv_percentile(args.options_data) <= 85
        /\ result.condition # NEWS_SPIKE
        /\ get_strategy_config(result.condition).strategy_type # SKIP
        /\ result.trade = None =>
               NoContracts(result.condition, args.options_data)

\* C26 witness: under the default thresholds select_strategy has classified
\* a candidate over the universe with the highest IV percentile, 85, and
\* built a Trade.
C26_Witness ==
    /\ SelectReturned
    /\ settings = DefaultSettings
    /\ _estimate_iv_percentile(args.options_data) = 85
    /\ result.condition \in MarketCondition \ {NEWS_SPIKE}
    /\ result.trade # None

(***************************************************************************)
(* The API client (src/data/api_client.py)                                 *)
(*                                                                         *)
(* The clock counts half seconds, the unit of _min_request_interval.  A    *)
(* TDAClient is a record of its fields; `client` is TRUE when the tda      *)
(* client was authenticated and FALSE when it is None.  The answer of the  *)
(* remote API to one invocation is an input: a response with a status      *)
(* code and a body, or an exception raised by the API method.              *)
(***************************************************************************)
Seconds(s) == 2 * s

\* CircuitBreaker.__init__
CircuitBreaker(failure_threshold, recovery_timeout) ==
    [failure_threshold |-> failure_threshold,
     recovery_timeout  |-> recovery_timeout,
     failures          |-> 0,
     last_failure_time |-> 0,
     is_open           |-> FALSE]

\* CircuitBreaker.record_failure, at clock reading time.
record_failure(cb, time) ==
    LET failures == cb.failures + 1
    IN  [cb EXCEPT !.failures = failures,
                   !.last_failure_time = time,
                   !.is_open = IF failures >= cb.failure_threshold
                               THEN TRUE ELSE @]

\* CircuitBreaker.record_success
record_success(cb) ==
    IF cb.failures > 0
    THEN [cb EXCEPT !.failures = 0,
                    !.is_open = IF @ THEN FALSE ELSE @]
    ELSE cb

\* CircuitBreaker.check_state: None, or the exception it raises.
check_state(cb, time) ==
    IF cb.is_open
    THEN LET time_since_failure == time - cb.last_failure_time
         IN  IF time_since_failure > cb.recovery_timeout
             THEN None
             ELSE Raised("CircuitBreakerOpen")
    ELSE None

\* TDAClient.__init__; _initialize_client leaves client set or None.
TDAClient(client) ==
    [client                |-> client,
     _last_request_time    |-> 0,
     _min_request_interval |-> 1,
     circuit_breaker       |-> CircuitBreaker(5, Seconds(60))]

\* TDAClient._rate_limit: the client and the clock after the sleep.
_rate_limit(self, time) ==
    LET time_since_last == time - self._last_request_time
        now == IF time_since_last < self._min_request_interval
               THEN time + (self._min_request_interval - time_since_last)
               ELSE time
    IN  [self |-> [self EXCEPT !._last_request_time = now], time |-> now]

\* The arguments of the @retry decorator of _make_request with four attempts.
RetryPolicyFourAttempts ==
    [stop_after_attempt |-> 4,
     retry_if_exception_type |-> {"RateLimitError", "APIError"}]

\* The arguments of the @retry decorator of _make_request.
RetryPolicy ==
    [stop_after_attempt |-> 3,
     retry_if_exception_type |-> {"RateLimitError", "APIError"}]

\* wait_exponential(multiplier=1, min=2, max=10) before the next attempt.
wait_exponential(attempt_number) ==
    Seconds(Max(2, Min(1 * 2 ^ (attempt_number - 1), 10)))

Response(status_code, body) == [status_code |-> status_code, body |-> body]

(***************************************************************************)
(* One execution of the body of TDAClient._make_request.  `response` is    *)
(* what the API method does if it is invoked.  The result holds the        *)
(* client and the clock afterwards, whether the method was invoked, and    *)
(* the response returned or the exception raised.                          *)
(***************************************************************************)
_make_request(self, time, response) ==
    LET Out(s, t, invoked, value) ==
            [self |-> s, time |-> t, invoked |-> invoked, value |-> value]
        checked == check_state(self.circuit_breaker, time)
        limited == _rate_limit(self, time)
        Failed(s, n) ==
            \* n calls of record_failure at the clock after the rate limit
            IF n = 2
            THEN [s EXCEPT !.circuit_breaker =
                     record_failure(record_failure(@, limited.time),
                                    limited.time)]
            ELSE [s EXCEPT !.circuit_breaker =
                     record_failure(@, limited.time)]
    IN  IF ~self.client
        THEN Out(self, time, FALSE, Raised("TDAClientError"))
        ELSE IF IsRaised(checked)
        THEN Out(self, time, FALSE, checked)
        ELSE IF IsRaised(response)
        THEN \* the except clause records the failure and raises e again
             Out(Failed(limited.self, 1), limited.time, TRUE, response)
        ELSE IF response.status_code = 200
        THEN Out([limited.self EXCEPT !.circuit_breaker = record_success(@)],
                 limited.time, TRUE, response)
        ELSE IF response.status_code = 429
        THEN Out(limited.self, limited.time, TRUE, Raised("RateLimitError"))
        ELSE \* record_failure in the else branch, then the APIError it
             \* raises reaches the except clause, which records again
             Out(Failed(limited.self, 2), limited.time, TRUE,
                 Raised("APIError"))

Getters ==
    {"get_quote", "get_quotes", "get_price_history", "get_option_chain",
     "is_market_open"}

\* What a getter returns from its except clause.
Unavailable(getter) ==
    CASE getter = "get_quotes"     -> [returned |-> EmptyDict]
      [] getter = "is_market_open" -> [returned |-> FALSE]
      [] OTHER                     -> [returned |-> None]

(***************************************************************************)
(* What a getter returns from a response of status 200.  A body is         *)
(* "data" (the JSON document asked for), "empty" (a JSON object without    *)
(* the key read) or "invalid" (response.json() raises).                    *)
(***************************************************************************)
GetterValue(getter, response) ==
    CASE response.body = "invalid" -> Unavailable(getter)
      [] response.body = "empty" ->
            CASE getter = "get_quote"      -> [returned |-> None]
              [] getter = "is_market_open" -> [returned |-> FALSE]
              [] OTHER                     -> [returned |-> EmptyDict]
      [] OTHER ->
            CASE getter = "is_market_open" -> [returned |-> TRUE]
              [] OTHER -> [returned |-> [json |-> getter]]

\* Bounds of the client's environment.
MaxCalls == 2
MaxTime == 140

ApiOutcomes ==
    { Response(200, b) : b \in {"data", "empty", "invalid"} }
        \cup { Response(429, "empty"), Response(500, "empty") }
        \cup { Raised("ConnectionError") }

InitClient ==
    /\ RunIdle
    /\ settings = DefaultSettings
    /\ pc = "call"
    /\ op = "none"
    /\ \E client \in BOOLEAN :
          args = [self |-> TDAClient(client), time |-> 1,
                  attempt_number |-> 0, invoked |-> 0, calls |-> 0]
    /\ result = None

(***************************************************************************)
(* A getter is called and runs up to its first attempt of _make_request.   *)
(* is_market_open returns False at once without a client; the getters      *)
(* that read an attribute of self.client to build the call raise           *)
(* AttributeError on None inside their try block; get_option_chain passes  *)
(* a closure and reaches _make_request.                                    *)
(***************************************************************************)
CallGetter(getter) ==
    /\ pc \in {"call", "returned"}
    /\ args.calls < MaxCalls
    /\ op' = getter
    /\ IF ~args.self.client /\ getter # "get_option_chain"
       THEN /\ pc' = "returned"
            /\ args' = [args EXCEPT !.attempt_number = 0, !.invoked = 0,
                                    !.calls = @ + 1]
            /\ result' = [response |-> None,
                          value |-> IF getter = "is_market_open"
                                    THEN None
                                    ELSE Raised("AttributeError"),
                          returned |-> Unavailable(getter).returned]
       ELSE /\ pc' = "attempt"
            /\ args' = [args EXCEPT !.attempt_number = 1, !.invoked = 0,
                                    !.calls = @ + 1]
            /\ result' = None
    /\ UNCHANGED idleVars

(***************************************************************************)
(* One attempt of the retrying _make_request, and what follows it: the     *)
(* getter returns the data of a response, tenacity sleeps and attempts     *)
(* again after a RateLimitError or an APIError while attempts are left,    *)
(* and any exception that leaves _make_request (RetryError after the       *)
(* last attempt) is caught by the getter.                                  *)
(***************************************************************************)
Attempt(response) ==
    /\ pc = "attempt"
    /\ LET r == _make_request(args.self, args.time, response)
           last == [response |-> IF r.invoked THEN response ELSE None,
                    value |-> r.value]
           invoked == args.invoked + (IF r.invoked THEN 1 ELSE 0)
       IN  IF ~IsRaised(r.value)
           THEN /\ pc' = "returned"
                /\ args' = [args EXCEPT !.self = r.self, !.time = r.time,
                                        !.invoked = invoked]
                /\ result' = [response |-> last.response,
                              value |-> last.value,
                              returned |-> GetterValue(op, r.value).returned]
           ELSE IF /\ r.value.raised \in RetryPolicy.retry_if_exception_type
                   /\ args.attempt_number < RetryPolicy.stop_after_attempt
           THEN /\ pc' = "attempt"
                /\ args' = [args EXCEPT
                              !.self = r.self,
                              !.time = r.time
                                         + wait_exponential(args.attempt_number),
                              !.invoked = invoked,
                              !.attempt_number = @ + 1]
                /\ result' = last
           ELSE /\ pc' = "returned"
                /\ args' = [args EXCEPT !.self = r.self, !.time = r.time,
                                        !.invoked = invoked]
                /\ result' = [response |-> last.response,
                              value |-> last.value,
                              returned |-> Unavailable(op).returned]
    /\ UNCHANGED op
    /\ UNCHANGED idleVars

\* Time passes between two calls of the client.
Elapse(d) ==
    /\ pc \in {"call", "returned"}
    /\ args.time + d <= MaxTime
    /\ args' = [args EXCEPT !.time = @ + d]
    /\ UNCHANGED <<pc, op, result>>
    /\ UNCHANGED idleVars

NextClient ==
    \/ \E getter \in Getters : CallGetter(getter)
    \/ \E response \in ApiOutcomes : Attempt(response)
    \/ \E d \in {Seconds(60), Seconds(60) + 1} : Elapse(d)

SpecClient == InitClient /\ [][NextClient]_vars

(***************************************************************************)
(* Properties of the circuit breaker                                       *)
(***************************************************************************)
\* A step that executes the body of _make_request.
AttemptStep == pc = "attempt" /\ (pc' # "attempt" \/ args' # args)

\* ... and in which the API method was invoked.
InvokedStep == AttemptStep /\ args'.invoked = args.invoked + 1

FailedInvocation(response) ==
    IsRaised(response) \/ response.status_code \notin {200, 429}

(***************************************************************************)
(* C27: each failed API response (a status other than 200 and 429) and     *)
(* each exception raised by the API method adds exactly one to the         *)
(* breaker's failure count, so a breaker that starts closed with zero      *)
(* failures is open only after failure_threshold failed attempts; a 429    *)
(* response changes neither the failure count nor the open/closed state.   *)
(***************************************************************************)
C27_EachFailureCountsOnce ==
    /\ [][InvokedStep =>
            LET before == args.self.circuit_breaker
                after == args'.self.circuit_breaker
                response == result'.response
            IN  /\ FailedInvocation(response) =>
                       after.failures = before.failures + 1
                /\ (~IsRaised(response) /\ response.status_code = 429) =>
                       /\ after.failures = before.failures
                       /\ after.is_open = before.is_open]_vars
    /\ [](\* during the first call, the invocations are all the attempts made
          (op \in Getters /\ args.calls = 1
             /\ args.self.circuit_breaker.is_open) =>
              args.invoked >= args.self.circuit_breaker.failure_threshold)

\* The breaker refuses requests at clock reading time.
Blocking(cb, time) ==
    cb.is_open /\ time - cb.last_failure_time <= cb.recovery_timeout

C28_BlockedWhileOpen ==
    [][(AttemptStep /\ Blocking(args.self.circuit_breaker, args.time)) =>
          /\ result'.value = Raised("CircuitBreakerOpen")
          /\ args'.invoked = args.invoked
          /\ args'.self = args.self]_vars

C28_OneTestRequest ==
    [][(InvokedStep /\ args.self.circuit_breaker.is_open) =>
          \/ ~args'.self.circuit_breaker.is_open
          \/ Blocking(args'.self.circuit_breaker, args'.time)]_vars

C28_ClosesOnlyOnSuccess ==
    [][(op \in Getters /\ args.self.circuit_breaker.is_open
          /\ ~args'.self.circuit_breaker.is_open) =>
          /\ InvokedStep
          /\ result'.response.status_code = 200
          /\ args'.self.circuit_breaker.failures = 0]_vars

C28_OpenIffThreshold ==
    op \in Getters =>
        LET cb == args.self.circuit_breaker
        IN  cb.is_open <=> cb.failures >= cb.failure_threshold

(***************************************************************************)
(* C28: while the breaker is open and no more than recovery_timeout        *)
(* seconds have passed since the last recorded failure, every              *)
(* _make_request raises CircuitBreakerOpen without invoking the API        *)
(* method; once the timeout has elapsed exactly one request is let         *)
(* through to test, so the request let through leaves the breaker closed   *)
(* or refusing again; the breaker closes, with failures reset to 0, only   *)
(* when a request returns status 200; and the breaker is open exactly      *)
(* when failures >= failure_threshold.                                     *)
(***************************************************************************)
C28_CircuitBreakerRecovery ==
    /\ C28_BlockedWhileOpen
    /\ C28_OneTestRequest
    /\ C28_ClosesOnlyOnSuccess
    /\ []C28_OpenIffThreshold

(***************************************************************************)
(* Properties of the public getters                                        *)
(***************************************************************************)
\* An attempt that is due is made: tenacity's sleep ends.
FairSpecClient ==
    SpecClient /\ WF_vars(\E response \in ApiOutcomes : Attempt(response))

\* The value a getter returned is its data or its unavailable value.
ReturnedValue ==
    /\ DOMAIN result = {"response", "value", "returned"}
    /\ IF op = "is_market_open"
       THEN result.returned \in BOOLEAN
       ELSE result.returned \in {None, EmptyDict, [json |-> op]}

C29_GetterState ==
    op \in Getters =>
        /\ pc \in {"attempt", "returned"}
        /\ args.invoked <= 3
        /\ pc = "returned" => ReturnedValue
        /\ (pc = "attempt" /\ args.attempt_number > 1) =>
               result.value \in {Raised("RateLimitError"), Raised("APIError")}

(***************************************************************************)
(* C29: every call of a public getter of TDAClient ends by returning a     *)
(* value, the data or the unavailable value (None, {} or False), never     *)
(* with an exception, after at most 3 invocations of the API method; a     *)
(* further attempt is made only after a RateLimitError or an APIError,     *)
(* never after CircuitBreakerOpen or with an uninitialized client.         *)
(***************************************************************************)
C29_GettersAlwaysReturn ==
    /\ []C29_GetterState
    /\ (pc = "attempt") ~> (pc = "returned")

\* A getter gave up after three rate-limited invocations.
C29_Witness ==
    /\ op \in Getters
    /\ pc = "returned"
    /\ args.invoked = 3
    /\ result.value = Raised("RateLimitError")
    /\ result.returned = Unavailable(op).returned

(***************************************************************************)
(* The cache (src/data/cache.py)                                           *)
(*                                                                         *)
(* A Cache is its database: for each of the three tables a function from   *)
(* symbol, the primary key, to the row stored or None.  The clock counts   *)
(* seconds.  A document is {key_type, payload}; json.dumps writes every    *)
(* key as a string, which is what the documents the callers store, JSON    *)
(* answers of the API, have already.                                       *)
(***************************************************************************)
CacheTables == {"quotes", "price_history", "option_chains"}

CacheSymbols == {"SPY", "QQQ"}

Document(payload) == [key_type |-> "str", payload |-> payload]

json_dumps(data) == [text |-> [data EXCEPT !.key_type = "str"]]

json_loads(text) == text.text

\* Cache._init_database: CREATE TABLE of empty tables.
_init_database ==
    [table \in CacheTables |-> [symbol \in CacheSymbols |-> None]]

\* Cache._is_expired that keeps an entry one second longer.
IsExpiredLate(timestamp, ttl_seconds, now) ==
    LET age == now - timestamp
    IN  age > ttl_seconds + 1

\* Cache._is_expired, at clock reading now.
_is_expired(timestamp, ttl_seconds, now) ==
    LET age == now - timestamp
    IN  age > ttl_seconds

\* The body shared by get_quote, get_price_history and get_option_chain:
\* SELECT the row of the symbol, return its data or DELETE it if expired.
CacheGet(self, table, symbol, ttl_seconds, now) ==
    LET row == self[table][symbol]
    IN  IF row # None
        THEN IF ~_is_expired(row.timestamp, ttl_seconds, now)
             THEN [self |-> self, returned |-> json_loads(row.data)]
             ELSE [self |-> [self EXCEPT ![table][symbol] = None],
                   returned |-> None]
        ELSE [self |-> self, returned |-> None]

\* The body shared by set_quote, set_price_history and set_option_chain:
\* INSERT OR REPLACE the row of the symbol.
CacheSet(self, table, symbol, data, now) ==
    [self EXCEPT ![table][symbol] =
        [data |-> json_dumps(data), timestamp |-> now]]

\* The table each method reads or writes.
CacheMethods ==
    [get_quote         |-> "quotes",
     set_quote         |-> "quotes",
     get_price_history |-> "price_history",
     set_price_history |-> "price_history",
     get_option_chain  |-> "option_chains",
     set_option_chain  |-> "option_chains"]

CacheGetters == {"get_quote", "get_price_history", "get_option_chain"}

CacheSetters == {"set_quote", "set_price_history", "set_option_chain"}

\* Bounds of the cache's environment.
MaxSets == 2
MaxClock == 1

\* `written` remembers, per table and symbol, the last set call.
InitCache ==
    /\ RunIdle
    /\ settings = DefaultSettings
    /\ pc = "call"
    /\ op = "Cache"
    /\ args = [self |-> _init_database, now |-> 0, sets |-> 0,
               written |-> _init_database, call |-> None]
    /\ result = None

CallCacheSet(method, symbol, data) ==
    /\ pc \in {"call", "returned"}
    /\ args.sets < MaxSets
    /\ LET table == CacheMethods[method]
       IN  args' = [args EXCEPT
                      !.self = CacheSet(@, table, symbol, data, args.now),
                      !.sets = @ + 1,
                      !.written[table][symbol] =
                          [data |-> data, timestamp |-> args.now],
                      !.call = [symbol |-> symbol, data |-> data]]
    /\ op' = method
    /\ result' = None
    /\ pc' = "returned"
    /\ UNCHANGED idleVars

CallCacheGet(method, symbol, ttl_seconds) ==
    /\ pc \in {"call", "returned"}
    /\ LET r == CacheGet(args.self, CacheMethods[method], symbol,
                         ttl_seconds, args.now)
       IN  /\ args' = [args EXCEPT
                         !.self = r.self,
                         !.call = [symbol |-> symbol,
                                   ttl_seconds |-> ttl_seconds]]
           /\ result' = [returned |-> r.returned]
    /\ op' = method
    /\ pc' = "returned"
    /\ UNCHANGED idleVars

\* A second passes.
Tick ==
    /\ pc \in {"call", "returned"}
    /\ args.now < MaxClock
    /\ args' = [args EXCEPT !.now = @ + 1]
    /\ UNCHANGED <<pc, op, result>>
    /\ UNCHANGED idleVars

NextCache ==
    \/ \E method \in CacheSetters, symbol \in CacheSymbols,
          payload \in {1, 2} : CallCacheSet(method, symbol, Document(payload))
    \/ \E method \in CacheGetters, symbol \in CacheSymbols,
          ttl_seconds \in {0, 1} : CallCacheGet(method, symbol, ttl_seconds)
    \/ Tick

SpecCache == InitCache /\ [][NextCache]_vars

(***************************************************************************)
(* Properties of the cache                                                 *)
(***************************************************************************)
\* A step that is a call of get_quote, get_price_history or
\* get_option_chain: the clock and the number of sets stay.
CacheGetStep ==
    /\ op' \in CacheGetters
    /\ args'.now = args.now
    /\ args'.sets = args.sets

(***************************************************************************)
(* C30: get_quote, get_price_history and get_option_chain return for a     *)
(* symbol only the value of the most recent set for that symbol in their   *)
(* table and only while its age is at most ttl_seconds; an entry older     *)
(* than the TTL is never returned, the get returns None and deletes it;    *)
(* entries of other symbols and other tables are left unchanged.           *)
(***************************************************************************)
C30_CacheReturnsFreshLastSet ==
    [][CacheGetStep =>
         LET table == CacheMethods[op']
             symbol == args'.call.symbol
             ttl_seconds == args'.call.ttl_seconds
             last == args.written[table][symbol]
             stored == args.self[table][symbol]
         IN  /\ result'.returned # None =>
                    /\ last # None
                    /\ result'.returned = last.data
                    /\ args.now - last.timestamp <= ttl_seconds
             /\ (stored # None
                   /\ args.now - stored.timestamp > ttl_seconds) =>
                    /\ result'.returned = None
                    /\ args'.self[table][symbol] = None
             /\ \A t \in CacheTables, s \in CacheSymbols :
                    (t # table \/ s # symbol) =>
                        args'.self[t][s] = args.self[t][s]]_vars

\* A get returned the value of the second of two sets for its symbol.
C30_Witness ==
    /\ op \in CacheGetters
    /\ pc = "returned"
    /\ result.returned = Document(2)
    /\ args.sets = 2
    /\ args.now = 1
    /\ args.written[CacheMethods[op]][args.call.symbol].timestamp = 1
    /\ \A t \in CacheTables, s \in CacheSymbols :
           (t # CacheMethods[op] \/ s # args.call.symbol) =>
               args.written[t][s] = None

=============================================================================
